---- MODULE Spec2Model ----
(***************************************************************************)
(* A model of xoto3's versioned multi-item transaction subsystem           *)
(* (xoto3/dynamodb/write_versioned): the immutable VersionedTransaction,   *)
(* the read/modify API, the lazy fetch-and-build driver, the commit        *)
(* request builder and the conflict-aware commit loop, run by concurrent   *)
(* callers against one DynamoDB store.                                     *)
(*                                                                         *)
(* Python values are encoded as follows.  An Item or ItemKey is a function *)
(* from attribute names to values; None is the record None below; a        *)
(* HashableItemKey is a sequence of key values (length 1 for the bare      *)
(* value of a simplex key, length 2 for the tuple of a complex key); a     *)
(* dict whose iteration order the code depends on carries an explicit      *)
(* order; an exception is a result record of kind "raise".                 *)
(***************************************************************************)
EXTENDS Integers, Sequences, FiniteSets, TLC

None == [none |-> TRUE]

EmptyItem == <<>>

Range(s) == {s[i] : i \in DOMAIN s}

(* Python's sorted() over attribute names: alphabetical order. *)
AttrOrder == <<"grp", "id", "item_version", "last_written_at", "note", "val">>

sorted(S) == SelectSeq(AttrOrder, LAMBDA a : a \in S)

(* dict.get(attr, default) *)
ItemGet(item, attr, default) == IF attr \in DOMAIN item THEN item[attr] ELSE default

(* dict(item, **updates): updates win *)
DictMerge(item, updates) ==
  [a \in (DOMAIN item) \cup (DOMAIN updates) |->
     IF a \in DOMAIN updates THEN updates[a] ELSE item[a]]

(***************************************************************************)
(* The store: the real key schema of each table (DescribeTable)            *)
(***************************************************************************)
TableNames == {"T", "U"}

KeySchema == [T |-> <<"id">>, U |-> <<"grp", "id">>]

item_version_attribute == "item_version"

last_written_attribute == "last_written_at"

(***************************************************************************)
(* transact/keys.py                                                        *)
(***************************************************************************)
key_from_item_raises(key_attributes, item) ==
  ~ (Range(key_attributes) \subseteq DOMAIN item)

key_from_item(key_attributes, item) ==
  [attr_name \in Range(sorted(Range(key_attributes))) |-> item[attr_name]]

hashable_key_raises(key) == Cardinality(DOMAIN key) \notin {1, 2}

(* hashable_key, were the values of a complex key taken in reverse order *)
hashable_key_reversed(key) ==
  LET attr_names == sorted(DOMAIN key) IN
  IF Cardinality(DOMAIN key) = 1
    THEN <<key[attr_names[1]]>>
    ELSE <<key[attr_names[2]], key[attr_names[1]]>>

hashable_key(key) ==
  LET attr_names == sorted(DOMAIN key) IN
  IF Cardinality(DOMAIN key) = 1
    THEN <<key[attr_names[1]]>>
    ELSE <<key[attr_names[1]], key[attr_names[2]]>>

hashable_key_to_key_raises(key_attributes, hkey) ==
  IF Len(hkey) = 2 THEN Len(key_attributes) # Len(hkey) ELSE Len(key_attributes) # 1

hashable_key_to_key(key_attributes, hkey) ==
  IF Len(hkey) = 2
    THEN [a \in {key_attributes[1], key_attributes[2]} |->
            IF a = key_attributes[2] THEN hkey[2] ELSE hkey[1]]
    ELSE [a \in {key_attributes[1]} |-> hkey[1]]

(***************************************************************************)
(* prewrite.py, utils/truth.py: the default sanitation of an item to put   *)
(***************************************************************************)
StringAttrs == {"grp", "id", "note"}

(* bool(val) or val == 0: every number passes, the empty string does not *)
dynamo_truthy(attr, val) == IF attr \in StringAttrs THEN val # "" ELSE TRUE

strip_falsy(d) ==
  [a \in {b \in DOMAIN d : dynamo_truthy(b, d[b])} |-> d[a]]

dynamodb_prewrite(item) == strip_falsy(item)

(***************************************************************************)
(* types.py: VersionedTransaction and _TableData.  tables is a Python dict *)
(* (insertion ordered): order lists its keys in insertion order.           *)
(***************************************************************************)
_TableData(items, effects, key_attributes) ==
  [items |-> items, effects |-> effects, key_attributes |-> key_attributes]

EmptyDict == [k \in {} |-> None]

VersionedTransaction(order, tables) == [order |-> order, tables |-> tables]

EmptyTransaction == VersionedTransaction(<<>>, EmptyDict)

(* {table_name: table_data}: the other tables of the transaction dropped *)
WithTable_alone(transaction, table_name, table_data) ==
  VersionedTransaction(<<table_name>>, [t \in {table_name} |-> table_data])

(* {**transaction.tables, table_name: table_data} *)
WithTable(transaction, table_name, table_data) ==
  VersionedTransaction(
    IF table_name \in DOMAIN transaction.tables
      THEN transaction.order
      ELSE Append(transaction.order, table_name),
    [t \in (DOMAIN transaction.tables) \cup {table_name} |->
       IF t = table_name THEN table_data ELSE transaction.tables[t]])

(* {**d, k: v} for the items and effects dicts *)
WithEntry(d, k, v) == [j \in (DOMAIN d) \cup {k} |-> IF j = k THEN v ELSE d[j]]

(***************************************************************************)
(* read.py.  The exception by which get asks for an item to be fetched is  *)
(* ItemUndefinedException in read.py and errors.py; run.py catches it      *)
(* under the name ItemNotYetFetchedError.                                  *)
(***************************************************************************)
Value(v) == [kind |-> "value", value |-> v]

ItemUndefinedException(table_name, item_key) ==
  [kind |-> "raise", exc |-> "ItemUndefinedException", table_name |-> table_name,
   key |-> item_key, force_immediate_fetch |-> FALSE]

ItemNotFoundException(table_name, item_key) ==
  [kind |-> "raise", exc |-> "ItemNotFoundException", table_name |-> table_name,
   key |-> item_key]

Raise(exc) == [kind |-> "raise", exc |-> exc]

(* get, were the baseline looked up before the effects *)
get_baseline_first(transaction, table_name, item_key) ==
  IF table_name \notin DOMAIN transaction.tables
    THEN ItemUndefinedException(table_name, item_key)
    ELSE LET items == transaction.tables[table_name].items
             effects == transaction.tables[table_name].effects
             item_hashable_key == hashable_key(item_key)
         IN  IF item_hashable_key \in DOMAIN items
               THEN Value(items[item_hashable_key])
               ELSE IF item_hashable_key \notin DOMAIN effects
                      THEN ItemUndefinedException(table_name, item_key)
                      ELSE Value(effects[item_hashable_key])

(* get, were an item missing from a known table taken to be absent *)
get_missing_is_none(transaction, table_name, item_key) ==
  IF table_name \notin DOMAIN transaction.tables
    THEN ItemUndefinedException(table_name, item_key)
    ELSE LET items == transaction.tables[table_name].items
             effects == transaction.tables[table_name].effects
             item_hashable_key == hashable_key(item_key)
         IN  IF item_hashable_key \in DOMAIN effects
               THEN Value(effects[item_hashable_key])
               ELSE IF item_hashable_key \notin DOMAIN items
                      THEN Value(None)
                      ELSE Value(items[item_hashable_key])

get(transaction, table_name, item_key) ==
  IF table_name \notin DOMAIN transaction.tables
    THEN ItemUndefinedException(table_name, item_key)
    ELSE LET items == transaction.tables[table_name].items
             effects == transaction.tables[table_name].effects
             item_hashable_key == hashable_key(item_key)
         IN  IF item_hashable_key \in DOMAIN effects
               THEN Value(effects[item_hashable_key])
               ELSE IF item_hashable_key \notin DOMAIN items
                      THEN ItemUndefinedException(table_name, item_key)
                      ELSE Value(items[item_hashable_key])

(* require, were a known absent item passed on to the caller as None *)
require_passing_none(transaction, table_name, item_key) ==
  LET r == get(transaction, table_name, item_key) IN
  IF r.kind = "value" THEN r ELSE [r EXCEPT !.force_immediate_fetch = TRUE]

require(transaction, table_name, item_key) ==
  LET r == get(transaction, table_name, item_key) IN
  IF r.kind = "value"
    THEN IF r.value = None
           THEN ItemNotFoundException(table_name, item_key)
           ELSE r
    ELSE [r EXCEPT !.force_immediate_fetch = TRUE]

(***************************************************************************)
(* ddb_api.py: known_key_schema asks DynamoDB (DescribeTable); without the *)
(* permission the schema is unknown, the empty tuple.                      *)
(***************************************************************************)
known_key_schema(table, can_describe) ==
  IF can_describe THEN KeySchema[table] ELSE <<>>

(***************************************************************************)
(* prepare.py                                                              *)
(***************************************************************************)
standard_key_attributes_from_key(item_key) == sorted(DOMAIN item_key)

(***************************************************************************)
(* modify.py: a modifier returns the new transaction and whether it is the *)
(* very object it was given (same), since run.py tests object identity.    *)
(***************************************************************************)
Tx(transaction, same) == [kind |-> "tx", tx |-> transaction, same |-> same]

Put(item) == [kind |-> "Put", item |-> item]

Delete(item_key) == [kind |-> "Delete", item_key |-> item_key]

(* _write, were the first effect recorded for a key kept *)
_write_keeping_first(transaction, table_name, put_or_delete, can_describe) ==
  LET known == table_name \in DOMAIN transaction.tables
      fetched_schema == known_key_schema(table_name, can_describe)
      guessable == put_or_delete.kind = "Delete"
                   /\ Cardinality(DOMAIN put_or_delete.item_key) <= 2
      key_attributes ==
        IF known THEN transaction.tables[table_name].key_attributes
        ELSE IF fetched_schema # <<>> THEN fetched_schema
        ELSE standard_key_attributes_from_key(put_or_delete.item_key)
      items == IF known THEN transaction.tables[table_name].items ELSE EmptyDict
      effects == IF known THEN transaction.tables[table_name].effects ELSE EmptyDict
      source == IF put_or_delete.kind = "Put"
                  THEN put_or_delete.item ELSE put_or_delete.item_key
      item_or_none == IF put_or_delete.kind = "Put" THEN put_or_delete.item ELSE None
  IN  IF ~known /\ fetched_schema = <<>> /\ ~guessable
        THEN Raise("TableSchemaUnknownError")
      ELSE IF key_from_item_raises(key_attributes, source)
        THEN Raise("KeyError")
      ELSE IF hashable_key_raises(key_from_item(key_attributes, source))
        THEN Raise("AssertionError")
      ELSE LET hkey == hashable_key(key_from_item(key_attributes, source))
           IN  Tx(WithTable(transaction, table_name,
                    _TableData(items,
                               IF hkey \in DOMAIN effects
                                 THEN effects ELSE WithEntry(effects, hkey, item_or_none),
                               key_attributes)),
                  FALSE)

_write(transaction, table_name, put_or_delete, can_describe) ==
  LET known == table_name \in DOMAIN transaction.tables
      fetched_schema == known_key_schema(table_name, can_describe)
      guessable == put_or_delete.kind = "Delete"
                   /\ Cardinality(DOMAIN put_or_delete.item_key) <= 2
      key_attributes ==
        IF known THEN transaction.tables[table_name].key_attributes
        ELSE IF fetched_schema # <<>> THEN fetched_schema
        ELSE standard_key_attributes_from_key(put_or_delete.item_key)
      items == IF known THEN transaction.tables[table_name].items ELSE EmptyDict
      effects == IF known THEN transaction.tables[table_name].effects ELSE EmptyDict
      source == IF put_or_delete.kind = "Put"
                  THEN put_or_delete.item ELSE put_or_delete.item_key
      item_or_none == IF put_or_delete.kind = "Put" THEN put_or_delete.item ELSE None
  IN  IF ~known /\ fetched_schema = <<>> /\ ~guessable
        THEN Raise("TableSchemaUnknownError")
      ELSE IF key_from_item_raises(key_attributes, source)
        THEN Raise("KeyError")
      ELSE IF hashable_key_raises(key_from_item(key_attributes, source))
        THEN Raise("AssertionError")
      ELSE Tx(WithTable(transaction, table_name,
                _TableData(items,
                           WithEntry(effects,
                                     hashable_key(key_from_item(key_attributes, source)),
                                     item_or_none),
                           key_attributes)),
              FALSE)

put(transaction, table, item, can_describe) ==
  _write(transaction, table, Put(dynamodb_prewrite(item)), can_describe)

(* delete, were the key schema of the table always obtained *)
delete_describing(transaction, table, item_or_key, can_describe) ==
  _write(transaction, table, Delete(item_or_key), TRUE)

delete(transaction, table, item_or_key, can_describe) ==
  _write(transaction, table, Delete(item_or_key), can_describe)

(***************************************************************************)
(* specify.py.  standard_key_attributes is imported from keys.py, which    *)
(* this source tree does not hold: the sorted tuple of the names.          *)
(***************************************************************************)
standard_key_attributes(key_attributes) == sorted(key_attributes)

presume(transaction, table_name, item_key, item_value) ==
  LET table_data ==
        IF table_name \in DOMAIN transaction.tables
          THEN transaction.tables[table_name]
          ELSE _TableData(EmptyDict, EmptyDict, standard_key_attributes(DOMAIN item_key))
      hkey == hashable_key(item_key)
  IN  IF item_value # None /\ ~ (DOMAIN item_key \subseteq DOMAIN item_value)
        THEN Raise("KeyError")
      ELSE IF item_value # None
              /\ \E key_attr \in DOMAIN item_key : item_value[key_attr] # item_key[key_attr]
        THEN Raise("AssertionError")
      ELSE IF hkey \notin DOMAIN table_data.items
        THEN Tx(WithTable(transaction, table_name,
                  _TableData(WithEntry(table_data.items, hkey,
                                       IF item_value # None
                                         THEN dynamodb_prewrite(item_value) ELSE None),
                             table_data.effects,
                             table_data.key_attributes)),
                FALSE)
      ELSE Tx(transaction, TRUE)

(* define_table, were a table already present defined anew *)
define_table_redefining(transaction, table_name, key_attributes) ==
  IF Cardinality(key_attributes) \notin {1, 2}
    THEN Raise("AssertionError")
    ELSE Tx(WithTable(transaction, table_name,
              _TableData(EmptyDict, EmptyDict, standard_key_attributes(key_attributes))),
            FALSE)

define_table(transaction, table_name, key_attributes) ==
  IF Cardinality(key_attributes) \notin {1, 2}
    THEN Raise("AssertionError")
  ELSE IF table_name \in DOMAIN transaction.tables
    THEN Tx(transaction, TRUE)
    ELSE Tx(WithTable(transaction, table_name,
              _TableData(EmptyDict, EmptyDict, standard_key_attributes(key_attributes))),
            FALSE)

(***************************************************************************)
(* prepare.py.  A collection of keys of one table is modelled as a set of  *)
(* ItemKeys (the code deduplicates it); item_keys_by_table_name is a dict, *)
(* in insertion order.                                                     *)
(***************************************************************************)
KeysByTable(order, keys) == [order |-> order, keys |-> keys]

NoKeys == KeysByTable(<<>>, EmptyDict)

(* the assertion of _deduplicate_and_validate_keys *)
_deduplicate_and_validate_keys_raises(item_keys) ==
  \E k1, k2 \in item_keys : DOMAIN k1 # DOMAIN k2

(* tables with no keys are eliminated *)
parse_batch_get_request(item_keys_by_table_name) ==
  LET keep == SelectSeq(item_keys_by_table_name.order,
                        LAMBDA t : item_keys_by_table_name.keys[t] # {})
  IN  KeysByTable(keep, [t \in Range(keep) |-> item_keys_by_table_name.keys[t]])

parse_batch_get_request_raises(item_keys_by_table_name) ==
  \E t \in DOMAIN item_keys_by_table_name.keys :
     _deduplicate_and_validate_keys_raises(item_keys_by_table_name.keys[t])

_extract_key_attributes(item_keys) ==
  standard_key_attributes_from_key(CHOOSE k \in item_keys : TRUE)

(* items_and_keys_to_clean_table_data, were only the items found entered *)
items_and_keys_to_clean_table_data_found_only(key_attributes, item_keys, items) ==
  _TableData(
    [h \in {hashable_key(key_from_item(key_attributes, item)) : item \in items} |->
       CHOOSE item \in items : hashable_key(key_from_item(key_attributes, item)) = h],
    EmptyDict,
    key_attributes)

items_and_keys_to_clean_table_data(key_attributes, item_keys, items) ==
  LET existing_items_by_hashable_key ==
        [h \in {hashable_key(key_from_item(key_attributes, item)) : item \in items} |->
           CHOOSE item \in items : hashable_key(key_from_item(key_attributes, item)) = h]
      hashable_keys == {hashable_key(key) : key \in item_keys}
                       \cup DOMAIN existing_items_by_hashable_key
  IN  _TableData(
        [hashable_item_key \in hashable_keys |->
           IF hashable_item_key \in DOMAIN existing_items_by_hashable_key
             THEN existing_items_by_hashable_key[hashable_item_key]
             ELSE None],
        EmptyDict,
        key_attributes)

prepare_clean_transaction(item_keys_by_table_name, response_items_by_table_name) ==
  VersionedTransaction(
    item_keys_by_table_name.order,
    [table_name \in Range(item_keys_by_table_name.order) |->
       items_and_keys_to_clean_table_data(
         _extract_key_attributes(item_keys_by_table_name.keys[table_name]),
         item_keys_by_table_name.keys[table_name],
         response_items_by_table_name[table_name])])

(* add_item_to_base_request, were the key not added *)
add_item_to_base_request_dropping(table_name_onto_item_keys, table_name, item_key) ==
  table_name_onto_item_keys

add_item_to_base_request(table_name_onto_item_keys, table_name, item_key) ==
  IF table_name \notin DOMAIN table_name_onto_item_keys.keys
    THEN KeysByTable(Append(table_name_onto_item_keys.order, table_name),
                     WithEntry(table_name_onto_item_keys.keys, table_name, {item_key}))
    ELSE KeysByTable(table_name_onto_item_keys.order,
                     WithEntry(table_name_onto_item_keys.keys, table_name,
                               table_name_onto_item_keys.keys[table_name] \cup {item_key}))

(* every key in items or effects of a table *)
TouchedKeys(table_data) == (DOMAIN table_data.items) \cup (DOMAIN table_data.effects)

(* The key_attributes used in the final comprehension is the variable left *)
(* over from the last iteration of the loop above it: the key attributes   *)
(* of the last table of failed_transaction.tables.                         *)
LeftoverKeyAttributes(failed_transaction) ==
  failed_transaction.tables[failed_transaction.order[Len(failed_transaction.order)]]
    .key_attributes

all_items_for_next_attempt_raises(failed_transaction) ==
  \E table_name \in DOMAIN failed_transaction.tables :
    \E hkey \in TouchedKeys(failed_transaction.tables[table_name]) :
       hashable_key_to_key_raises(LeftoverKeyAttributes(failed_transaction), hkey)

all_items_for_next_attempt(failed_transaction) ==
  KeysByTable(
    failed_transaction.order,
    [table_name \in DOMAIN failed_transaction.tables |->
       {hashable_key_to_key(LeftoverKeyAttributes(failed_transaction), hkey) :
          hkey \in TouchedKeys(failed_transaction.tables[table_name])}])

(***************************************************************************)
(* utils/expressions.py: the condition is kept as data, and evaluated by   *)
(* the store (ConditionHolds below).                                       *)
(*   #itemVersion = :curItemVersion OR attribute_not_exists(#itemVersion)  *)
(* and, with id_that_exists,                                               *)
(*   #itemVersion = :curItemVersion OR                                     *)
(*     ( attribute_not_exists(#itemVersion) AND                            *)
(*       attribute_exists(#idThatExists) )                                 *)
(***************************************************************************)
versioned_item_expression(item_version, item_version_key, id_that_exists) ==
  [curItemVersion |-> item_version,
   itemVersion |-> item_version_key,
   idThatExists |-> id_that_exists]

(***************************************************************************)
(* ddb_api.py: the commit request                                          *)
(***************************************************************************)
RECURSIVE SeqOfSet(_)
SeqOfSet(S) ==
  IF S = {} THEN <<>>
  ELSE LET x == CHOOSE y \in S : TRUE IN <<x>> \o SeqOfSet(S \ {x})

RECURSIVE Concat(_)
Concat(seqs) == IF seqs = <<>> THEN <<>> ELSE Head(seqs) \o Concat(Tail(seqs))

get_existing_item(items, hkey) ==
  IF hkey \in DOMAIN items /\ items[hkey] # None THEN items[hkey] ELSE EmptyItem

(* put_or_delete_item, were the version to be written the one expected *)
put_or_delete_item_expecting_next(table_name, tbl_data, item_hashable_key, effect, last_written_at_str) ==
  LET item == get_existing_item(tbl_data.items, item_hashable_key)
      expected_version == ItemGet(item, item_version_attribute, 0)
      expression_expecting_item_version ==
        versioned_item_expression(
          expected_version + 1, item_version_attribute,
          IF item # EmptyItem THEN tbl_data.key_attributes[1] ELSE "")
  IN  IF effect = None
        THEN [cmd |-> "Delete", TableName |-> table_name,
              Key |-> hashable_key_to_key(tbl_data.key_attributes, item_hashable_key),
              Condition |-> expression_expecting_item_version]
        ELSE [cmd |-> "Put", TableName |-> table_name,
              Item |-> DictMerge(effect,
                         [last_written_at |-> last_written_at_str,
                          item_version |-> expected_version + 1]),
              Condition |-> expression_expecting_item_version]

(* put_or_delete_item, were the version written back as it was read *)
put_or_delete_item_keeping_version(table_name, tbl_data, item_hashable_key, effect, last_written_at_str) ==
  LET item == get_existing_item(tbl_data.items, item_hashable_key)
      expected_version == ItemGet(item, item_version_attribute, 0)
      expression_expecting_item_version ==
        versioned_item_expression(
          expected_version, item_version_attribute,
          IF item # EmptyItem THEN tbl_data.key_attributes[1] ELSE "")
  IN  IF effect = None
        THEN [cmd |-> "Delete", TableName |-> table_name,
              Key |-> hashable_key_to_key(tbl_data.key_attributes, item_hashable_key),
              Condition |-> expression_expecting_item_version]
        ELSE [cmd |-> "Put", TableName |-> table_name,
              Item |-> DictMerge(effect,
                         [last_written_at |-> last_written_at_str,
                          item_version |-> expected_version]),
              Condition |-> expression_expecting_item_version]

put_or_delete_item(table_name, tbl_data, item_hashable_key, effect, last_written_at_str) ==
  LET item == get_existing_item(tbl_data.items, item_hashable_key)
      expected_version == ItemGet(item, item_version_attribute, 0)
      expression_expecting_item_version ==
        versioned_item_expression(
          expected_version, item_version_attribute,
          IF item # EmptyItem THEN tbl_data.key_attributes[1] ELSE "")
  IN  IF effect = None
        THEN [cmd |-> "Delete", TableName |-> table_name,
              Key |-> hashable_key_to_key(tbl_data.key_attributes, item_hashable_key),
              Condition |-> expression_expecting_item_version]
        ELSE [cmd |-> "Put", TableName |-> table_name,
              Item |-> DictMerge(effect,
                         [last_written_at |-> last_written_at_str,
                          item_version |-> expected_version + 1]),
              Condition |-> expression_expecting_item_version]

(* item_remains_unmodified, were every check made against version 0 *)
item_remains_unmodified_unversioned(table_name, tbl_data, item_hashable_key, item) ==
  [cmd |-> "ConditionCheck", TableName |-> table_name,
   Key |-> hashable_key_to_key(tbl_data.key_attributes, item_hashable_key),
   Condition |->
     versioned_item_expression(
       0, item_version_attribute,
       IF item # None THEN tbl_data.key_attributes[1] ELSE "")]

item_remains_unmodified(table_name, tbl_data, item_hashable_key, item) ==
  [cmd |-> "ConditionCheck", TableName |-> table_name,
   Key |-> hashable_key_to_key(tbl_data.key_attributes, item_hashable_key),
   Condition |->
     versioned_item_expression(
       ItemGet(get_existing_item(tbl_data.items, item_hashable_key),
               item_version_attribute, 0),
       item_version_attribute,
       IF item # None THEN tbl_data.key_attributes[1] ELSE "")]

(* the request of one table, were the items not written left unchecked *)
TableTransactItems_written_only(table_name, tbl_data, last_written_at_str) ==
  LET written == SeqOfSet(DOMAIN tbl_data.effects)
  IN  [i \in 1..Len(written) |->
         put_or_delete_item(table_name, tbl_data, written[i],
                            tbl_data.effects[written[i]], last_written_at_str)]

TableTransactItems(table_name, tbl_data, last_written_at_str) ==
  LET keys_of_items_to_be_modified == DOMAIN tbl_data.effects
      written == SeqOfSet(keys_of_items_to_be_modified)
      unwritten == SeqOfSet((DOMAIN tbl_data.items) \ keys_of_items_to_be_modified)
  IN  [i \in 1..Len(written) |->
         put_or_delete_item(table_name, tbl_data, written[i],
                            tbl_data.effects[written[i]], last_written_at_str)]
      \o
      [i \in 1..Len(unwritten) |->
         item_remains_unmodified(table_name, tbl_data, unwritten[i],
                                 tbl_data.items[unwritten[i]])]

(* the assertions of hashable_key_to_key, made for a Delete or a           *)
(* ConditionCheck of a key whose shape is not that of the key attributes   *)
built_transaction_to_transact_write_items_args_raises(transaction) ==
  \E t \in DOMAIN transaction.tables :
    LET tbl_data == transaction.tables[t] IN
    \E h \in (DOMAIN tbl_data.items) \cup (DOMAIN tbl_data.effects) :
      /\ h \in DOMAIN tbl_data.effects => tbl_data.effects[h] = None
      /\ hashable_key_to_key_raises(tbl_data.key_attributes, h)

built_transaction_to_transact_write_items_args(transaction, last_written_at_str) ==
  Concat([i \in 1..Len(transaction.order) |->
            TableTransactItems(transaction.order[i],
                               transaction.tables[transaction.order[i]],
                               last_written_at_str)])

(***************************************************************************)
(* DynamoDB, the collaborator behind batch_get_item and the ddb client.    *)
(* A table maps every key of its key space to the stored item or None.     *)
(***************************************************************************)
ClientError(code, reasons) == [Code |-> code, CancellationReasons |-> reasons]

Ok(new_store, called) == [ok |-> TRUE, store |-> new_store, called |-> called]

Failed(error, called) == [ok |-> FALSE, error |-> error, called |-> called]

StoredItem(tbl, table_name, key) ==
  LET stored == tbl[table_name][hashable_key(key)] IN
  IF stored = None THEN EmptyItem ELSE stored

KeyMatchesSchema(table_name, key) == DOMAIN key = Range(KeySchema[table_name])

ConditionHolds(condition, stored) ==
  \/ /\ condition.itemVersion \in DOMAIN stored
     /\ stored[condition.itemVersion] = condition.curItemVersion
  \/ /\ condition.itemVersion \notin DOMAIN stored
     /\ \/ condition.idThatExists = ""
        \/ condition.idThatExists \in DOMAIN stored

OpKey(op) ==
  IF op.cmd = "Put" THEN key_from_item(KeySchema[op.TableName], op.Item) ELSE op.Key

OpValid(op) ==
  IF op.cmd = "Put"
    THEN ~ key_from_item_raises(KeySchema[op.TableName], op.Item)
    ELSE KeyMatchesSchema(op.TableName, op.Key)

OpHolds(tbl, op) == ConditionHolds(op.Condition, StoredItem(tbl, op.TableName, OpKey(op)))

(* the store after the writes of ops *)
Applied(tbl, ops) ==
  [t \in DOMAIN tbl |->
     [h \in DOMAIN tbl[t] |->
        IF \E i \in DOMAIN ops :
             /\ ops[i].cmd # "ConditionCheck"
             /\ ops[i].TableName = t
             /\ hashable_key(OpKey(ops[i])) = h
          THEN LET op == ops[CHOOSE i \in DOMAIN ops :
                               /\ ops[i].cmd # "ConditionCheck"
                               /\ ops[i].TableName = t
                               /\ hashable_key(OpKey(ops[i])) = h]
               IN  IF op.cmd = "Put" THEN op.Item ELSE None
          ELSE tbl[t][h]]]

ddb_transact_write_items(tbl, TransactItems) ==
  IF \E i \in DOMAIN TransactItems : ~ OpValid(TransactItems[i])
    THEN Failed(ClientError("ValidationException", {}), "transact_write_items")
  ELSE IF \A i \in DOMAIN TransactItems : OpHolds(tbl, TransactItems[i])
    THEN Ok(Applied(tbl, TransactItems), "transact_write_items")
  ELSE Failed(ClientError("TransactionCanceledException", {"ConditionalCheckFailed"}),
              "transact_write_items")

(* ddb_write_item, were the ConditionExpression not evaluated *)
ddb_write_item_unconditional(tbl, op, called) ==
  IF ~ OpValid(op)
    THEN Failed(ClientError("ValidationException", {}), called)
    ELSE Ok(Applied(tbl, <<op>>), called)

(* put_item and delete_item with a ConditionExpression *)
ddb_write_item(tbl, op, called) ==
  IF ~ OpValid(op)
    THEN Failed(ClientError("ValidationException", {}), called)
  ELSE IF OpHolds(tbl, op)
    THEN Ok(Applied(tbl, <<op>>), called)
  ELSE Failed(ClientError("ConditionalCheckFailedException", {}), called)

(* BatchGetItem with ConsistentRead: the items that exist, per table *)
ddb_batch_get_item_raises(item_keys_by_table_name) ==
  \E t \in DOMAIN item_keys_by_table_name.keys :
    \E key \in item_keys_by_table_name.keys[t] : ~ KeyMatchesSchema(t, key)

_ddb_batch_get_item(tbl, item_keys_by_table_name) ==
  [t \in DOMAIN item_keys_by_table_name.keys |->
     {tbl[t][hashable_key(key)] : key \in item_keys_by_table_name.keys[t]} \ {None}]

(***************************************************************************)
(* ddb_api.py: the default transact_write_items and the classifier         *)
(***************************************************************************)
(* boto3_transact_multiple_but_optimize_single, were a single              *)
(* ConditionCheck sent to the store as any other request                   *)
boto3_transact_multiple_but_optimize_single_checking(tbl, TransactItems) ==
  IF Len(TransactItems) = 0
    THEN Ok(tbl, "none")
  ELSE IF Len(TransactItems) = 1 /\ TransactItems[1].cmd = "Put"
    THEN ddb_write_item(tbl, TransactItems[1], "put_item")
  ELSE IF Len(TransactItems) = 1 /\ TransactItems[1].cmd = "Delete"
    THEN ddb_write_item(tbl, TransactItems[1], "delete_item")
  ELSE ddb_transact_write_items(tbl, TransactItems)

(* boto3_transact_multiple_but_optimize_single, were the single Put or     *)
(* Delete sent without its condition                                       *)
boto3_transact_multiple_but_optimize_single_unconditional(tbl, TransactItems) ==
  IF Len(TransactItems) = 0
    THEN Ok(tbl, "none")
  ELSE IF Len(TransactItems) = 1 /\ TransactItems[1].cmd = "Put"
    THEN Ok(Applied(tbl, TransactItems), "put_item")
  ELSE IF Len(TransactItems) = 1 /\ TransactItems[1].cmd = "Delete"
    THEN Ok(Applied(tbl, TransactItems), "delete_item")
  ELSE IF Len(TransactItems) = 1 /\ TransactItems[1].cmd = "ConditionCheck"
    THEN Ok(tbl, "none")
  ELSE ddb_transact_write_items(tbl, TransactItems)

boto3_transact_multiple_but_optimize_single(tbl, TransactItems) ==
  IF Len(TransactItems) = 0
    THEN Ok(tbl, "none")
  ELSE IF Len(TransactItems) = 1 /\ TransactItems[1].cmd = "Put"
    THEN ddb_write_item(tbl, TransactItems[1], "put_item")
  ELSE IF Len(TransactItems) = 1 /\ TransactItems[1].cmd = "Delete"
    THEN ddb_write_item(tbl, TransactItems[1], "delete_item")
  ELSE IF Len(TransactItems) = 1 /\ TransactItems[1].cmd = "ConditionCheck"
    THEN Ok(tbl, "none")
  ELSE ddb_transact_write_items(tbl, TransactItems)

_KNOWN_RETRYABLE_UPDATE_ERRORS ==
  {"TransactionConflictException", "ConditionalCheckFailedException"}

(* is_conditional_update_retryable, were no error of a single-item write   *)
(* known to be retryable                                                   *)
is_conditional_update_retryable_never(ce) == FALSE

is_conditional_update_retryable(ce) == ce.Code \in _KNOWN_RETRYABLE_UPDATE_ERRORS

_RetryableTransactionCancelledErrorCodes ==
  {"ConditionalCheckFailed", "TransactionConflict", "ThrottlingError",
   "ProvisionedThroughputExceeded"}

_is_transaction_failed_and_retryable(ce) ==
  IF ce.Code = "TransactionInProgressException" THEN TRUE
  ELSE IF ce.Code = "TransactionCanceledException"
    THEN ce.CancellationReasons \subseteq _RetryableTransactionCancelledErrorCodes
  ELSE FALSE

is_cancelled_and_retryable(ce) ==
  is_conditional_update_retryable(ce) \/ _is_transaction_failed_and_retryable(ce)

(***************************************************************************)
(* run.py                                                                  *)
(***************************************************************************)
(* _is_empty, were it never to find a transaction empty *)
_is_empty_never(transaction) == FALSE

_is_empty(transaction) ==
  \A table_name \in DOMAIN transaction.tables :
     DOMAIN transaction.tables[table_name].effects = {}

(***************************************************************************)
(* Transaction builders: the pure functions a caller hands to              *)
(* versioned_transact_write_items, written as straight-line programs over  *)
(* the read/modify API.  item is the value of the last get or require.     *)
(***************************************************************************)
RECURSIVE transaction_builder(_, _, _, _)
transaction_builder(program, result, item, can_describe) ==
  IF program = <<>> THEN result
  ELSE
    LET ins == Head(program)
        rest == Tail(program)
        Read(r) == IF r.kind = "raise" THEN r
                   ELSE transaction_builder(rest, result, r.value, can_describe)
        Then(w) == IF w.kind = "raise" THEN w
                   ELSE transaction_builder(rest, Tx(w.tx, result.same /\ w.same),
                                            item, can_describe)
    IN  CASE ins.op = "get" -> Read(get(result.tx, ins.table, ins.key))
          [] ins.op = "require" -> Read(require(result.tx, ins.table, ins.key))
          [] ins.op = "return_if_none" ->
               IF item = None THEN result
               ELSE transaction_builder(rest, result, item, can_describe)
          [] ins.op = "raise_if_none" ->
               IF item = None THEN Raise("ValueError")
               ELSE transaction_builder(rest, result, item, can_describe)
          [] ins.op = "put_same" -> Then(put(result.tx, ins.table, item, can_describe))
          [] ins.op = "put_incremented" ->
               Then(put(result.tx, ins.table,
                        DictMerge(item, [val |-> ItemGet(item, "val", 0) + 1]),
                        can_describe))
          [] ins.op = "put" -> Then(put(result.tx, ins.table, ins.item, can_describe))
          [] ins.op = "delete" -> Then(delete(result.tx, ins.table, ins.key, can_describe))
          [] ins.op = "presume" -> Then(presume(result.tx, ins.table, ins.key, ins.value))
          [] ins.op = "define_table" ->
               Then(define_table(result.tx, ins.table, ins.key_attributes))

KeyA == [id |-> "a"]

KeyB == [id |-> "b"]

KeyGX == [grp |-> "g", id |-> "x"]

Get(table, key) == [op |-> "get", table |-> table, key |-> key]

Require(table, key) == [op |-> "require", table |-> table, key |-> key]

PutItem(table, item) == [op |-> "put", table |-> table, item |-> item]

DeleteKey(table, key) == [op |-> "delete", table |-> table, key |-> key]

Presume(table, key, value) ==
  [op |-> "presume", table |-> table, key |-> key, value |-> value]

DefineTable(table, key_attributes) ==
  [op |-> "define_table", table |-> table, key_attributes |-> key_attributes]

ItemA(version) == [id |-> "a", val |-> 1, item_version |-> version, last_written_at |-> 0]

Programs ==
  [noop |-> <<>>,
   read_a |-> <<Get("T", KeyA)>>,
   read_all |-> <<Get("T", KeyA), Get("T", KeyB), Get("U", KeyGX)>>,
   presume_b_absent |-> <<Presume("T", KeyB, None), Get("T", KeyB), Get("T", KeyA)>>,
   increment_a |-> <<Require("T", KeyA), [op |-> "put_incremented", table |-> "T"]>>,
   reput_a |-> <<Require("T", KeyA), [op |-> "put_same", table |-> "T"]>>,
   require_a_put_b |-> <<Require("T", KeyA), PutItem("T", [id |-> "b", val |-> 5])>>,
   delete_a |-> <<Get("T", KeyA), [op |-> "return_if_none"], DeleteKey("T", KeyA)>>,
   put_a |-> <<Get("T", KeyA), PutItem("T", [id |-> "a", val |-> 2, note |-> ""])>>,
   presume_a |-> <<Presume("T", KeyA, ItemA(3)), Require("T", KeyA),
                   [op |-> "put_incremented", table |-> "T"]>>,
   a_to_u |-> <<Require("T", KeyA), PutItem("U", [grp |-> "g", id |-> "x", val |-> 1])>>,
   misdefined_u |-> <<DefineTable("U", {"id"}), PutItem("U", [id |-> "x", val |-> 1])>>,
   opt_put_a |-> <<PutItem("T", [id |-> "a", val |-> 9])>>,
   opt_delete_a |-> <<DeleteKey("T", KeyA)>>,
   presume_me |-> <<Presume("T", KeyB, None)>>,
   get_a_require_a |-> <<Get("T", KeyA), Require("T", KeyA),
                         [op |-> "put_incremented", table |-> "T"]>>,
   get_b_require_a |-> <<Get("T", KeyB), Require("T", KeyA),
                         [op |-> "put_incremented", table |-> "T"]>>,
   fail_without_a |-> <<Get("T", KeyA), [op |-> "raise_if_none"],
                        [op |-> "put_incremented", table |-> "T"]>>]

Invocation(builder, keys, can_describe) ==
  [builder |-> builder, keys |-> keys, can_describe |-> can_describe]

PrefetchA == KeysByTable(<<"T">>, [T |-> {KeyA}])

AllKeys == KeysByTable(<<"T", "U">>, [T |-> {KeyA, KeyB}, U |-> {KeyGX}])

Invocations ==
  {Invocation("noop", NoKeys, TRUE),
   Invocation("read_a", NoKeys, TRUE),
   Invocation("read_all", NoKeys, TRUE),
   Invocation("presume_b_absent", NoKeys, TRUE),
   Invocation("increment_a", PrefetchA, TRUE),
   Invocation("reput_a", NoKeys, TRUE),
   Invocation("require_a_put_b", NoKeys, TRUE),
   Invocation("delete_a", PrefetchA, TRUE),
   Invocation("put_a", NoKeys, TRUE),
   Invocation("presume_a", NoKeys, TRUE),
   Invocation("a_to_u", NoKeys, TRUE),
   Invocation("a_to_u", NoKeys, FALSE),
   Invocation("misdefined_u", NoKeys, TRUE),
   Invocation("opt_put_a", NoKeys, TRUE),
   Invocation("opt_delete_a", NoKeys, FALSE),
   Invocation("presume_me", NoKeys, TRUE)}

(* p1 is the caller under study and may run any builder; p2 stands for the *)
(* other versioned writers of item a.                                      *)
Writers == {"increment_a", "delete_a", "put_a"}

InvocationsOf(p) ==
  IF p = "p1" THEN Invocations
  ELSE {invocation \in Invocations : invocation.builder \in Writers}

(***************************************************************************)
(* The state: the DynamoDB tables, the wall clock, and for each caller the *)
(* locals of its call of versioned_transact_write_items in run.py.         *)
(***************************************************************************)
Procs == {"p1", "p2"}

MaxAttempts == 2

MaxCalls == 2

StoredKeys == [T |-> {<<"a">>, <<"b">>}, U |-> {<<"g", "x">>}]

InitialItems ==
  [T |-> [h \in StoredKeys["T"] |->
            IF h = <<"a">>
              THEN {None, [id |-> "a", val |-> 1], ItemA(1), ItemA(3)}
              ELSE {None, [id |-> "b", val |-> 0, item_version |-> 1,
                           last_written_at |-> 0]}],
   U |-> [h \in StoredKeys["U"] |-> {None}]]

(* call is the latest direct use of the default transact_write_items, by a *)
(* program that builds the request itself (ddb_api_test.py).               *)
(* vt is the transaction that a program builds by hand, one call of the    *)
(* read/modify API after another (build_test.py, specify_test.py), with    *)
(* the latest call and what it gave.  timer is the state of one iterator   *)
(* made by timed_retry.  kx holds two item keys and what the key           *)
(* conversions of transact/keys.py made of them.  vu is the state of the   *)
(* callers of versioned_diffed_update_item, and mc that of one             *)
(* LazyMulticast with its producer and subscribers.                        *)
VARIABLES store, now, run, call, vt, timer, kx, vu, mc

vars == <<store, now, run, call, vt, timer, kx, vu, mc>>

NoCall == [made |-> FALSE]

NoInstruction == [op |-> "none"]

NotBuilt ==
  [tx |-> EmptyTransaction, before |-> EmptyTransaction, ins |-> NoInstruction,
   can_describe |-> TRUE, result |-> Tx(EmptyTransaction, TRUE), steps |-> 0]

NoTimer == [pc |-> "unused"]

NoKeysConverted == [pc |-> "unused"]

Updaters == {"u1", "u2"}

NotUpdating == [pc |-> "idle", calls |-> 0]

NoMulticast == [pc |-> "unused"]

NoOutcome == [kind |-> "none"]

Returned(transaction) == [kind |-> "returned", tx |-> transaction]

RaisedClientError(ce) == [kind |-> "raise", exc |-> "ClientError", error |-> ce]

TransactionAttemptsOverrun(attempts, failed_transaction) ==
  [kind |-> "raise", exc |-> "TransactionAttemptsOverrun", attempts |-> attempts,
   failed_transaction |-> failed_transaction]

Idle ==
  [pc |-> "idle", builder |-> "noop", can_describe |-> TRUE,
   item_keys_by_table_name |-> NoKeys, i |-> 0,
   clean_transaction |-> EmptyTransaction, built_transaction |-> EmptyTransaction,
   outcome |-> NoOutcome,
   calls |-> 0, reads |-> 0, builds |-> 0, writes |-> 0, last |-> "idle",
   first_clean |-> EmptyTransaction, error |-> None,
   changed_once |-> {}, changed_again |-> {}]

Init ==
  /\ store \in [T : [StoredKeys["T"] -> UNION {InitialItems["T"][h] : h \in StoredKeys["T"]}],
                U : [StoredKeys["U"] -> {None}]]
  /\ \A t \in TableNames : \A h \in StoredKeys[t] : store[t][h] \in InitialItems[t][h]
  /\ now = 1
  /\ run = [p \in Procs |-> Idle]
  /\ call = NoCall
  /\ vt = NotBuilt
  /\ timer = NoTimer
  /\ kx = NoKeysConverted
  /\ vu = [u \in Updaters |-> NotUpdating]
  /\ mc = NoMulticast

(* p1 makes one call; the other writers make up to MaxCalls, one after     *)
(* another                                                                 *)
CallsOf(p) == IF p = "p1" THEN 1 ELSE MaxCalls

(* versioned_transact_write_items(transaction_builder, item_keys_by_table_name) *)
Call(p, invocation) ==
  /\ run[p].pc \in {"idle", "done"}
  /\ run[p].calls < CallsOf(p)
  /\ invocation \in InvocationsOf(p)
  /\ run' = [run EXCEPT ![p] =
       [Idle EXCEPT !.pc = "fetch",
                    !.builder = invocation.builder,
                    !.can_describe = invocation.can_describe,
                    !.item_keys_by_table_name = invocation.keys,
                    !.calls = run[p].calls + 1,
                    !.last = "call"]]
  /\ UNCHANGED <<store, now, call, vt, timer, kx, vu, mc>>

Finish(r, outcome, last) ==
  [r EXCEPT !.pc = "done", !.outcome = outcome, !.last = last]

(* One round of _lazy_loading_transaction_builder: the batch read, the     *)
(* clean transaction, the builder; then the test for no effects.           *)
Fetch(p) ==
  /\ run[p].pc = "fetch"
  /\ LET r == run[p]
         item_keys_by_table_name == parse_batch_get_request(r.item_keys_by_table_name)
         clean_transaction ==
           prepare_clean_transaction(item_keys_by_table_name,
                                     _ddb_batch_get_item(store, item_keys_by_table_name))
         built == transaction_builder(Programs[r.builder], Tx(clean_transaction, TRUE),
                                      None, r.can_describe)
         fetched == [r EXCEPT !.item_keys_by_table_name = item_keys_by_table_name,
                              !.clean_transaction = clean_transaction,
                              !.reads = r.reads + 1,
                              !.builds = r.builds + 1,
                              !.first_clean = IF r.reads = 0 THEN clean_transaction ELSE @,
                              !.changed_once = {}, !.changed_again = {}]
     IN  run' = [run EXCEPT ![p] =
           IF parse_batch_get_request_raises(r.item_keys_by_table_name)
             THEN Finish(r, Raise("AssertionError"), "raised")
           ELSE IF ddb_batch_get_item_raises(item_keys_by_table_name)
             THEN Finish([r EXCEPT !.reads = r.reads + 1],
                         RaisedClientError(ClientError("ValidationException", {})),
                         "raised")
           ELSE IF built.kind = "raise" /\ built.exc = "ItemUndefinedException"
                   /\ DOMAIN built.key = {}
             THEN Finish(fetched, Raise("AssertionError"), "raised")
           ELSE IF built.kind = "raise" /\ built.exc = "ItemUndefinedException"
             THEN [fetched EXCEPT
                     !.item_keys_by_table_name =
                        add_item_to_base_request(item_keys_by_table_name,
                                                 built.table_name, built.key),
                     !.last = "not_yet_fetched"]
           ELSE IF built.kind = "raise"
             THEN Finish(fetched, built, "raised")
           ELSE IF built.same \/ _is_empty(built.tx)
             THEN Finish(fetched, Returned(clean_transaction), "no_effects")
           ELSE [fetched EXCEPT !.pc = "write", !.built_transaction = built.tx,
                                !.last = "built"]]
  /\ UNCHANGED <<store, now, call, vt, timer, kx, vu, mc>>

Written(TransactItems) ==
  {<<TransactItems[j].TableName, hashable_key(OpKey(TransactItems[j]))>> :
     j \in {k \in DOMAIN TransactItems : TransactItems[k].cmd # "ConditionCheck"}}

(* what a commit of another caller does to the bookkeeping of changes      *)
(* since the last batch read                                               *)
Noticed(r, written) ==
  [r EXCEPT !.changed_again = @ \cup (r.changed_once \cap written),
            !.changed_once = (@ \cup written) \ (r.changed_again \cup (@ \cap written))]

(* The rest of the attempt, once transact_write_items has returned or      *)
(* raised: return the built transaction, re-raise, or go round again.      *)
(* AfterWrite, were every ClientError retried *)
AfterWrite_retrying_all(r, result) ==
  LET attempted == [r EXCEPT !.writes = r.writes + 1,
                             !.error = IF result.ok THEN @ ELSE result.error]
  IN
  IF result.ok
    THEN Finish(attempted, Returned(r.built_transaction), "committed")
  ELSE IF all_items_for_next_attempt_raises(r.built_transaction)
    THEN Finish(attempted, Raise("AssertionError"), "raised")
  ELSE IF r.i + 1 = MaxAttempts
    THEN Finish(attempted,
                TransactionAttemptsOverrun(r.i + 1, r.built_transaction), "overrun")
  ELSE [attempted EXCEPT
          !.pc = "fetch", !.i = r.i + 1,
          !.item_keys_by_table_name = all_items_for_next_attempt(r.built_transaction),
          !.last = "retry"]

AfterWrite(r, result) ==
  LET attempted == [r EXCEPT !.writes = r.writes + 1,
                             !.error = IF result.ok THEN @ ELSE result.error]
  IN
  IF result.ok
    THEN Finish(attempted, Returned(r.built_transaction), "committed")
  ELSE IF ~ is_cancelled_and_retryable(result.error)
    THEN Finish(attempted, RaisedClientError(result.error), "not_retryable")
  ELSE IF all_items_for_next_attempt_raises(r.built_transaction)
    THEN Finish(attempted, Raise("AssertionError"), "raised")
  ELSE IF r.i + 1 = MaxAttempts
    THEN Finish([attempted EXCEPT
                   !.item_keys_by_table_name =
                      all_items_for_next_attempt(r.built_transaction)],
                TransactionAttemptsOverrun(r.i + 1, r.built_transaction), "overrun")
  ELSE [attempted EXCEPT
          !.pc = "fetch", !.i = r.i + 1,
          !.item_keys_by_table_name = all_items_for_next_attempt(r.built_transaction),
          !.last = "retry"]

TransactItemsOf(r) ==
  built_transaction_to_transact_write_items_args(r.built_transaction, now)

Attempt(p, result) ==
  /\ store' = IF result.ok THEN result.store ELSE store
  /\ run' = [q \in Procs |->
               IF q = p THEN AfterWrite(run[p], result)
               ELSE IF result.ok THEN Noticed(run[q], Written(TransactItemsOf(run[p])))
               ELSE run[q]]
  /\ now' = now + 1
  /\ UNCHANGED <<call, vt, timer, kx, vu, mc>>

(* the commit attempt against the store *)
Write(p) ==
  /\ run[p].pc = "write"
  /\ Attempt(p, boto3_transact_multiple_but_optimize_single(store, TransactItemsOf(run[p])))

(* the commit attempt when the service refuses it for a reason of its own *)
ServiceErrors ==
  {ClientError("TransactionInProgressException", {}),
   ClientError("TransactionConflictException", {}),
   ClientError("TransactionCanceledException", {}),
   ClientError("TransactionCanceledException", {"ThrottlingError"}),
   ClientError("TransactionCanceledException", {"ConditionalCheckFailed", "ValidationError"}),
   ClientError("ResourceNotFoundException", {}),
   ClientError("AccessDeniedException", {})}

WriteFails(p, ce) ==
  /\ run[p].pc = "write"
  /\ Attempt(p, Failed(ce, "transact_write_items"))

Next ==
  \/ \E p \in Procs : \E invocation \in Invocations : Call(p, invocation)
  \/ \E p \in Procs : Fetch(p)
  \/ \E p \in Procs : Write(p)

Spec == Init /\ [][Next]_vars

(* One caller alone, against a service that may also refuse a commit;      *)
(* a call that has been started is carried on.                             *)
NextSolo ==
  \/ \E invocation \in Invocations : Call("p1", invocation)
  \/ Fetch("p1")
  \/ Write("p1")
  \/ \E ce \in ServiceErrors : WriteFails("p1", ce)

(* The default transact_write_items used on its own: a request built from  *)
(* a transaction that presumes item a, and maybe item b, and records at    *)
(* most one effect on item a.                                              *)
ClientPrograms ==
  {<<Presume("T", KeyA, value)>> \o also \o effect :
     value \in {None, [id |-> "a", val |-> 1], ItemA(1), ItemA(3)},
     also \in {<<>>, <<Presume("T", KeyB, None)>>},
     effect \in {<<>>, <<PutItem("T", [id |-> "a", val |-> 2])>>,
                 <<DeleteKey("T", KeyA)>>}}
  \cup {<<>>}

Transact(program) ==
  /\ now <= MaxCalls
  /\ LET transaction ==
           transaction_builder(program, Tx(EmptyTransaction, TRUE), None, TRUE).tx
         TransactItems == built_transaction_to_transact_write_items_args(transaction, now)
         result == boto3_transact_multiple_but_optimize_single(store, TransactItems)
     IN  /\ store' = IF result.ok THEN result.store ELSE store
         /\ call' = [made |-> TRUE, TransactItems |-> TransactItems, before |-> store,
                     ok |-> result.ok, called |-> result.called,
                     error |-> IF result.ok THEN None ELSE result.error]
  /\ now' = now + 1
  /\ UNCHANGED <<run, vt, timer, kx, vu, mc>>

NextClient == \E program \in ClientPrograms : Transact(program)

SpecClient == Init /\ [][NextClient]_vars

(* A transaction built by hand.  The first step may be a fetch, which      *)
(* gives the clean transaction of a batch read; every other step is one    *)
(* call of get, require, put, delete, presume or define_table on the       *)
(* transaction built so far.                                               *)
MaxSteps == 3

ItemGX == [grp |-> "g", id |-> "x", val |-> 1]

BuildInstructions ==
  {Get(t, k) : <<t, k>> \in {<<"T", KeyA>>, <<"T", KeyB>>, <<"U", KeyGX>>}}
  \cup {Require(t, k) : <<t, k>> \in {<<"T", KeyA>>, <<"T", KeyB>>, <<"U", KeyGX>>}}
  \cup {Presume("T", KeyA, None), Presume("T", KeyA, ItemA(3)), Presume("T", KeyB, None),
        Presume("U", KeyGX, None), Presume("U", KeyGX, ItemGX)}
  \cup {PutItem("T", [id |-> "a", val |-> 2]), PutItem("T", [id |-> "b", val |-> 5]),
        PutItem("U", ItemGX)}
  \cup {DeleteKey("T", KeyA), DeleteKey("T", [id |-> "a", val |-> 1]),
        DeleteKey("T", ItemA(1)), DeleteKey("U", KeyGX)}
  \cup {DefineTable("T", {"id"}), DefineTable("U", {"grp", "id"})}

(* one call of the API on a transaction *)
Apply(transaction, ins, can_describe) ==
  CASE ins.op = "get" -> get(transaction, ins.table, ins.key)
    [] ins.op = "require" -> require(transaction, ins.table, ins.key)
    [] ins.op = "put" -> put(transaction, ins.table, ins.item, can_describe)
    [] ins.op = "delete" -> delete(transaction, ins.table, ins.key, can_describe)
    [] ins.op = "presume" -> presume(transaction, ins.table, ins.key, ins.value)
    [] ins.op = "define_table" -> define_table(transaction, ins.table, ins.key_attributes)

Prepare(item_keys_by_table_name) ==
  /\ vt.steps = 0
  /\ item_keys_by_table_name \in {PrefetchA, AllKeys}
  /\ vt' = [vt EXCEPT
              !.tx = prepare_clean_transaction(
                       item_keys_by_table_name,
                       _ddb_batch_get_item(store, item_keys_by_table_name)),
              !.ins = [op |-> "fetch"],
              !.result = Tx(EmptyTransaction, FALSE),
              !.steps = 1]
  /\ UNCHANGED <<store, now, run, call, timer, kx, vu, mc>>

Step(ins, can_describe) ==
  /\ vt.steps < MaxSteps
  /\ ins \in BuildInstructions
  /\ can_describe \in BOOLEAN
  /\ can_describe \/ ins.op \in {"put", "delete"}
  /\ LET result == Apply(vt.tx, ins, can_describe)
     IN  vt' = [tx |-> IF result.kind = "tx" THEN result.tx ELSE vt.tx,
                before |-> vt.tx, ins |-> ins, can_describe |-> can_describe,
                result |-> result, steps |-> vt.steps + 1]
  /\ UNCHANGED <<store, now, run, call, timer, kx, vu, mc>>

(* the commit request of the transaction built, which ends the building *)
Timestamps == {7, 8}

Request(last_written_at_str) ==
  /\ vt.steps \in 1..MaxSteps
  /\ vt.ins.op # "request"
  /\ last_written_at_str \in Timestamps
  /\ vt' = [vt EXCEPT
              !.before = vt.tx,
              !.ins = [op |-> "request", last_written_at_str |-> last_written_at_str],
              !.result =
                 IF built_transaction_to_transact_write_items_args_raises(vt.tx)
                   THEN Raise("AssertionError")
                   ELSE [kind |-> "request",
                         TransactItems |->
                           built_transaction_to_transact_write_items_args(
                             vt.tx, last_written_at_str)],
              !.steps = MaxSteps]
  /\ UNCHANGED <<store, now, run, call, timer, kx, vu, mc>>

NextBuild ==
  \/ \E item_keys_by_table_name \in {PrefetchA, AllKeys} : Prepare(item_keys_by_table_name)
  \/ \E last_written_at_str \in Timestamps : Request(last_written_at_str)
  \/ \E ins \in BuildInstructions : \E can_describe \in BOOLEAN : Step(ins, can_describe)

(* the store of the hand-built transactions: item a absent or versioned *)
InitBuild ==
  /\ Init
  /\ store["T"][<<"a">>] \in {None, ItemA(1)}
  /\ store["T"][<<"b">>] = None

SpecBuild == InitBuild /\ [][NextBuild]_vars

(* The key conversions applied to two mappings of up to three attributes.  *)
KeyAttributeNames == {"grp", "id", "note"}

KeyValues == {"a", "b"}

ItemKeys ==
  UNION {[attrs -> KeyValues] : attrs \in SUBSET KeyAttributeNames}

Hash(key, other) ==
  /\ kx.pc = "unused"
  /\ key \in ItemKeys
  /\ other \in ItemKeys
  /\ kx' = [pc |-> "hashed", key |-> key, other |-> other,
            hkey |-> IF hashable_key_raises(key)
                       THEN Raise("AssertionError") ELSE Value(hashable_key(key)),
            other_hkey |-> IF hashable_key_raises(other)
                             THEN Raise("AssertionError") ELSE Value(hashable_key(other)),
            back |-> NoOutcome]
  /\ UNCHANGED <<store, now, run, call, vt, timer, vu, mc>>

(* hashable_key_to_key(attrs, hashable_key(key)), attrs the sorted names *)
Restore ==
  /\ kx.pc = "hashed"
  /\ kx.hkey.kind = "value"
  /\ LET key_attributes == sorted(DOMAIN kx.key) IN
     kx' = [kx EXCEPT
              !.pc = "restored",
              !.back = IF hashable_key_to_key_raises(key_attributes, kx.hkey.value)
                         THEN Raise("AssertionError")
                         ELSE Value(hashable_key_to_key(key_attributes, kx.hkey.value))]
  /\ UNCHANGED <<store, now, run, call, vt, timer, vu, mc>>

NextKeys ==
  \/ \E key, other \in ItemKeys : Hash(key, other)
  \/ Restore

SpecKeys == Init /\ [][NextKeys]_vars

(***************************************************************************)
(* retry.py: timed_retry.  Time is counted in ticks of a tenth of a second *)
(* on the monotonic clock, which starts at 0; a sleep lasts as long as was *)
(* asked, rounded down to the tick.  random.uniform(0.0, 1.9) is any of    *)
(* the tenths from 0 to 19, and the factor 1.0 is 10 tenths.               *)
(***************************************************************************)
TenthOfSecond == 1

MaxUniform == 19

MaxTook == 2

Expirations == {0, 2, 5}

max(a, b) == IF a >= b THEN a ELSE b

min(a, b) == IF a <= b THEN a ELSE b

(* _choose_sleep_len..., were the number of attempts not looked at *)
_choose_sleep_len_unbounded(max_attempts_before_expiration, uniform, seconds_left, attempt) ==
  max(min(seconds_left * uniform, seconds_left - TenthOfSecond), 0)

_choose_sleep_len_to_average_N_attempts_in_the_total_interval(max_attempts_before_expiration, uniform, seconds_left, attempt) ==
  IF attempt >= max_attempts_before_expiration
    THEN -1
    ELSE max(min((seconds_left * uniform)
                   \div (10 * (max_attempts_before_expiration - attempt)),
                 seconds_left - TenthOfSecond),
             0)

(* the head of the while loop: another attempt is yielded, or the          *)
(* iterator is exhausted                                                   *)
WhileLoop(t) ==
  IF t.attempt = 0 \/ t.clock <= t.expiring_at
    THEN [t EXCEPT !.pc = "yielded", !.attempt = t.attempt + 1, !.yielded_at = t.clock]
    ELSE [t EXCEPT !.pc = "stopped"]

(* timed_retry(...) is called and its first attempt asked for *)
timed_retry(transaction_expiration, max_attempts_before_expiration, random_sleep_length) ==
  /\ timer.pc = "unused"
  /\ transaction_expiration \in Expirations
  /\ max_attempts_before_expiration \in 0..(MaxAttempts + 1)
  /\ random_sleep_length \in BOOLEAN
  /\ timer' = WhileLoop(
                [pc |-> "started", attempt |-> 0, clock |-> 0,
                 expiring_at |-> 0 + transaction_expiration,
                 max_attempts_before_expiration |-> max_attempts_before_expiration,
                 random_sleep_length |-> random_sleep_length,
                 yielded_at |-> 0, sleep |-> 0, slept_until |-> 0, took |-> 0])
  /\ UNCHANGED <<store, now, run, call, vt, kx, vu, mc>>

(* the attempt yielded took some time, and the next one is asked for *)
NextAttempt(took, uniform) ==
  /\ timer.pc = "yielded"
  /\ took \in 0..MaxTook
  /\ uniform \in 0..MaxUniform
  /\ timer.random_sleep_length \/ uniform = 10
  /\ LET monotonic == timer.clock + took
         sleep == _choose_sleep_len_to_average_N_attempts_in_the_total_interval(
                    timer.max_attempts_before_expiration, uniform,
                    timer.expiring_at - monotonic, timer.attempt)
     IN  timer' =
           IF sleep < 0
             THEN [timer EXCEPT !.pc = "stopped", !.clock = monotonic,
                                !.took = timer.took + took]
             ELSE WhileLoop([timer EXCEPT !.clock = monotonic + sleep,
                                          !.sleep = sleep,
                                          !.slept_until = monotonic + sleep,
                                          !.took = timer.took + took])
  /\ UNCHANGED <<store, now, run, call, vt, kx, vu, mc>>

NextRetry ==
  \/ \E transaction_expiration \in Expirations :
       \E max_attempts_before_expiration \in 0..(MaxAttempts + 1) :
         \E random_sleep_length \in BOOLEAN :
           timed_retry(transaction_expiration, max_attempts_before_expiration,
                       random_sleep_length)
  \/ \E took \in 0..MaxTook : \E uniform \in 0..MaxUniform : NextAttempt(took, uniform)

SpecRetry == Init /\ [][NextRetry]_vars

(***************************************************************************)
(* update/versioned.py: versioned_diffed_update_item, called by the        *)
(* Updaters for item a of table T.  An item transformer is named:          *)
(* increment adds 1 to val, nothing returns None, unchanged returns the    *)
(* item as it got it, blank sets note to the empty string.                 *)
(***************************************************************************)
ItemTransformers == {"increment", "nothing", "unchanged", "blank"}

item_transformer(name, item) ==
  CASE name = "increment" -> DictMerge(item, [val |-> ItemGet(item, "val", 0) + 1])
    [] name = "nothing" -> None
    [] name = "unchanged" -> item
    [] name = "blank" -> DictMerge(item, [note |-> ""])

ItemGetters == {"strongly_consistent_get_item", "strongly_consistent_get_item_if_exists"}

(* get.py: the item stored, ItemNotFoundException, or the empty dict for   *)
(* an item that does not exist                                             *)
get_item(getter, tbl, table_name, item_key) ==
  LET stored == tbl[table_name][hashable_key(item_key)] IN
  IF stored # None THEN Value(stored)
  ELSE IF getter = "strongly_consistent_get_item"
    THEN ItemNotFoundException(table_name, item_key)
    ELSE Value(EmptyItem)

(* diff.py.  The update diff maps an attribute to its new value, and to    *)
(* None when the attribute was removed; here the attributes removed are    *)
(* listed apart.  The default prediff transform dispatches on floats,      *)
(* tuples, sets and datetimes, none of which occurs among the values.      *)
is_meaningful_value_update(attr, old, new) ==
  IF attr \in DOMAIN old
    THEN (dynamo_truthy(attr, old[attr]) \/ dynamo_truthy(attr, new[attr]))
         /\ new[attr] # old[attr]
    ELSE dynamo_truthy(attr, new[attr])

build_update_diff(old, new) ==
  [values |-> [key \in {k \in DOMAIN new : is_meaningful_value_update(k, old, new)} |->
                 new[key]],
   removed |-> (DOMAIN old) \ (DOMAIN new)]

(* not item_diff *)
NoDifference(item_diff) == DOMAIN item_diff.values = {} /\ item_diff.removed = {}

select_attributes_for_set_and_remove(d) ==
  [set_attrs |-> [key \in {k \in DOMAIN d.values : dynamo_truthy(k, d.values[k])} |->
                    d.values[key]],
   remove_attrs |-> d.removed
                    \cup {k \in DOMAIN d.values : ~ dynamo_truthy(k, d.values[k])}]

(* builders.py, core.py: UpdateItem with condition_exists=False on the     *)
(* item stored, which DynamoDB creates from the key when there is none.    *)
(* SET leaves the key attributes out.                                      *)
(* UpdateOrCreateItem, were the condition expression not sent *)
UpdateOrCreateItem_unconditional(tbl, table_name, Key, update_arguments, expr) ==
  LET stored == StoredItem(tbl, table_name, Key)
      set_attrs == [k \in (DOMAIN update_arguments.set_attrs) \ (DOMAIN Key) |->
                      update_arguments.set_attrs[k]]
      kept == [k \in ((DOMAIN stored) \cup (DOMAIN Key)) \ update_arguments.remove_attrs |->
                 IF k \in DOMAIN Key THEN Key[k] ELSE stored[k]]
  IN  Ok([tbl EXCEPT ![table_name][hashable_key(Key)] = DictMerge(kept, set_attrs)], TRUE)

UpdateOrCreateItem(tbl, table_name, Key, update_arguments, expr) ==
  LET stored == StoredItem(tbl, table_name, Key)
      set_attrs == [k \in (DOMAIN update_arguments.set_attrs) \ (DOMAIN Key) |->
                      update_arguments.set_attrs[k]]
      kept == [k \in ((DOMAIN stored) \cup (DOMAIN Key)) \ update_arguments.remove_attrs |->
                 IF k \in DOMAIN Key THEN Key[k] ELSE stored[k]]
  IN  IF ConditionHolds(expr, stored)
        THEN Ok([tbl EXCEPT ![table_name][hashable_key(Key)] = DictMerge(kept, set_attrs)],
                TRUE)
        ELSE Failed(ClientError("ConditionalCheckFailedException", {}), TRUE)

VersionedUpdateFailure(item_key, table_name, update_arguments) ==
  [kind |-> "raise", exc |-> "VersionedUpdateFailure", key |-> item_key,
   table_name |-> table_name, update_arguments |-> update_arguments]

ReturnedItem(item) == [kind |-> "return", item |-> item]

(* the call, up to the loop *)
versioned_diffed_update_item(u, transformer, getter, max_attempts_before_failure) ==
  /\ vu[u].pc \in {"idle", "done"}
  /\ vu[u].calls < (IF u = "u1" THEN 1 ELSE MaxCalls)
  /\ transformer \in ItemTransformers
  /\ getter \in ItemGetters
  /\ max_attempts_before_failure \in 0..MaxAttempts
  /\ u = "u2" => transformer = "increment" /\ max_attempts_before_failure = 1
  /\ vu' = [vu EXCEPT ![u] =
              [pc |-> "get", calls |-> vu[u].calls + 1,
               item_transformer |-> transformer, get_item |-> getter,
               item_key |-> KeyA, table |-> "T", attempt |-> 0,
               asked |-> max_attempts_before_failure,
               max_attempts_before_failure |-> max(1, max_attempts_before_failure),
               update_arguments |-> None, item |-> None, updated_item |-> None,
               expr |-> None, outcome |-> NoOutcome,
               gets |-> 0, updates |-> 0, errors |-> <<>>]]
  /\ UNCHANGED <<store, now, run, call, vt, timer, kx, mc>>

(* one turn of the loop up to the call of update_item: the item is read    *)
(* and transformed                                                         *)
ReadAndTransform(u) ==
  /\ vu[u].pc = "get"
  /\ LET v == vu[u]
         got == get_item(v.get_item, store, v.table, v.item_key)
         item == got.value
         cur_item_version == ItemGet(item, item_version_attribute, 0)
         updated_item == item_transformer(v.item_transformer, item)
         item_diff == build_update_diff(item, updated_item)
         versioned_diff ==
           [item_diff EXCEPT
              !.values = DictMerge(item_diff.values,
                           [item_version |-> cur_item_version + 1,
                            last_written_at |-> now])]
         read == [v EXCEPT !.attempt = v.attempt + 1, !.gets = v.gets + 1]
     IN  vu' = [vu EXCEPT ![u] =
           IF got.kind = "raise"
             THEN [read EXCEPT !.pc = "done", !.outcome = got]
           ELSE IF updated_item = None \/ updated_item = EmptyItem
             THEN [read EXCEPT !.pc = "done", !.item = item, !.outcome = ReturnedItem(item)]
           ELSE IF NoDifference(item_diff)
             THEN [read EXCEPT !.pc = "done", !.item = item, !.outcome = ReturnedItem(item)]
           ELSE [read EXCEPT
                   !.pc = "update",
                   !.item = item,
                   !.updated_item =
                      DictMerge(updated_item,
                        [item_version |-> cur_item_version + 1, last_written_at |-> now]),
                   !.expr = versioned_item_expression(
                              cur_item_version, item_version_attribute,
                              IF item # EmptyItem
                                THEN standard_key_attributes_from_key(v.item_key)[1]
                                ELSE ""),
                   !.update_arguments =
                      select_attributes_for_set_and_remove(versioned_diff)]]
  /\ UNCHANGED <<store, now, run, call, vt, timer, kx, mc>>

UpdateErrors == {"none", "ProvisionedThroughputExceededException"}

(* what follows update_item, were every client error taken for a lost race *)
AfterUpdate_retrying_all(v, result) ==
  IF result.ok
    THEN [v EXCEPT !.pc = "done", !.outcome = ReturnedItem(v.updated_item)]
  ELSE IF v.attempt < v.max_attempts_before_failure
    THEN [v EXCEPT !.pc = "get"]
  ELSE [v EXCEPT
          !.pc = "done",
          !.outcome = VersionedUpdateFailure(v.item_key, v.table, v.update_arguments)]

(* what follows update_item: the return, the except clause, the loop test *)
AfterUpdate(v, result) ==
  IF result.ok
    THEN [v EXCEPT !.pc = "done", !.outcome = ReturnedItem(v.updated_item)]
  ELSE IF result.error.Code # "ConditionalCheckFailedException"
    THEN [v EXCEPT !.pc = "done", !.outcome = RaisedClientError(result.error)]
  ELSE IF v.attempt < v.max_attempts_before_failure
    THEN [v EXCEPT !.pc = "get"]
  ELSE [v EXCEPT
          !.pc = "done",
          !.outcome = VersionedUpdateFailure(v.item_key, v.table, v.update_arguments)]

(* the call of update_item and what follows it: the return, the error      *)
(* raised again, or the lost race, after which the loop goes on or ends    *)
Update(u, error) ==
  /\ vu[u].pc = "update"
  /\ error \in UpdateErrors
  /\ LET v == vu[u]
         result == IF error = "none"
                     THEN UpdateOrCreateItem(store, v.table, v.item_key,
                                             v.update_arguments, v.expr)
                     ELSE Failed(ClientError(error, {}), TRUE)
         called == [v EXCEPT !.updates = v.updates + 1,
                             !.errors = IF result.ok THEN v.errors
                                        ELSE Append(v.errors, result.error.Code)]
     IN  /\ store' = IF result.ok THEN result.store ELSE store
         /\ vu' = [vu EXCEPT ![u] = AfterUpdate(called, result)]
  /\ UNCHANGED <<now, run, call, vt, timer, kx, mc>>

NextUpdate ==
  \/ \E u \in Updaters : \E transformer \in ItemTransformers : \E getter \in ItemGetters :
       \E max_attempts_before_failure \in 0..MaxAttempts :
         versioned_diffed_update_item(u, transformer, getter, max_attempts_before_failure)
  \/ \E u \in Updaters : ReadAndTransform(u)
  \/ \E u \in Updaters : \E error \in UpdateErrors : Update(u, error)

InitUpdate == Init /\ store["T"][<<"b">>] = None

SpecUpdate == InitUpdate /\ [][NextUpdate]_vars

(***************************************************************************)
(* utils/multicast.py: LazyMulticast with the producer of the test, a      *)
(* thread that streams the numbers 0 .. producer_key - 1 to its callback.  *)
(* Subscribers are threads that enter the context manager, read their      *)
(* queue and leave, normally or by an exception raised in the body.        *)
(* mc.lock is the holder of self.lock, mc.present and mc.queues are the    *)
(* entry of self.producers, mc.recv is the producer thread's position in   *)
(* _recv_event_from_producer, mc.log every event the callback was called   *)
(* with.  cleanup stops the producer and, as the join of the test does,    *)
(* returns only when no callback is under way.                             *)
(***************************************************************************)
Subscribers == {"s1", "s2"}

MaxEnters == 2

NumNums == 2

QueueIds == Subscribers \X (1..MaxEnters)

(* how often the thread s runs the with statement *)
EntersOf(s) == IF s = "s1" THEN MaxEnters ELSE 1

NotSubscribed == [pc |-> "out", enters |-> 0, got |-> <<>>, since |-> 0]

NotReceiving == [pc |-> "idle", pending |-> <<>>, event |-> 0]

LazyMulticast(producer_key) ==
  /\ mc.pc = "unused"
  /\ producer_key \in 1..NumNums
  /\ mc' = [pc |-> "made", producer_key |-> producer_key, lock |-> "free",
            present |-> FALSE, queues |-> <<>>,
            queue |-> [q \in QueueIds |-> <<>>],
            sub |-> [s \in Subscribers |-> NotSubscribed],
            started |-> 0, cleanups |-> 0, running |-> FALSE, next |-> 0,
            log |-> <<>>, recv |-> NotReceiving]
  /\ UNCHANGED <<store, now, run, call, vt, timer, kx, vu>>

(* id(q) of the queue the subscriber s made on its latest entry *)
QueueOf(s) == <<s, mc.sub[s].enters>>

(* start_producer of the test: the thread is started, cleanup is its join *)
start_producer(m) ==
  [m EXCEPT !.started = @ + 1, !.running = TRUE, !.next = 0]

(* the cleanup start_producer returned *)
cleanup(m) == [m EXCEPT !.cleanups = @ + 1, !.running = FALSE]

(* lines 78-79: a new queue, registered with the producer *)
Subscribed(m, s) ==
  LET n == m.sub[s].enters + 1
  IN  [m EXCEPT !.queues = Append(@, <<s, n>>),
                !.queue[<<s, n>>] = <<>>,
                !.sub[s] = [pc |-> "in", enters |-> n, got |-> <<>>,
                            since |-> Len(m.log)]]

(* __enter__ of queue_poll_context, to the call of start_producer or, with *)
(* a producer running, to the yield                                        *)
Enter(s) ==
  /\ mc.pc = "made"
  /\ mc.lock = "free"
  /\ mc.sub[s].pc \in {"out", "left", "raised"}
  /\ mc.sub[s].enters < EntersOf(s)
  /\ mc' = IF mc.present
           THEN Subscribed(mc, s)
           ELSE [start_producer(mc) EXCEPT !.lock = s, !.sub[s].pc = "starting"]
  /\ UNCHANGED <<store, now, run, call, vt, timer, kx, vu>>

(* lines 75-81 after start_producer has returned *)
Register(s) ==
  /\ mc.pc = "made"
  /\ mc.lock = s
  /\ mc.sub[s].pc = "starting"
  /\ mc' = Subscribed([mc EXCEPT !.present = TRUE, !.queues = <<>>, !.lock = "free"], s)
  /\ UNCHANGED <<store, now, run, call, vt, timer, kx, vu>>

(* a sequence without its element x *)
Without(seq, x) == SelectSeq(seq, LAMBDA y : y # x)

(* lines 83-89: the code after the yield; the queue, which nothing refers  *)
(* to any more, is gone with what the subscriber had of it                 *)
exit(m, s) ==
  LET popped == [m EXCEPT !.queues = Without(@, <<s, m.sub[s].enters>>),
                          !.queue[<<s, m.sub[s].enters>>] = <<>>,
                          !.sub[s] = [@ EXCEPT !.pc = "left", !.got = <<>>, !.since = 0]]
  IN  IF popped.queues = <<>>
      THEN [cleanup(popped) EXCEPT !.present = FALSE]
      ELSE popped

(* the body of the with statement ends normally *)
Leave(s) ==
  /\ mc.pc = "made"
  /\ mc.lock = "free"
  /\ mc.sub[s].pc = "in"
  /\ exit(mc, s).cleanups # mc.cleanups => mc.recv.pc = "idle"
  /\ mc' = exit(mc, s)
  /\ UNCHANGED <<store, now, run, call, vt, timer, kx, vu>>

(* the body of the with statement raises: contextlib throws the exception  *)
(* into the generator at its yield, which no try statement encloses        *)
LeaveRaising(s) ==
  /\ mc.pc = "made"
  /\ mc.sub[s].pc = "in"
  /\ mc' = [mc EXCEPT !.sub[s] = [@ EXCEPT !.pc = "raised", !.got = <<>>, !.since = 0]]
  /\ UNCHANGED <<store, now, run, call, vt, timer, kx, vu>>

(* QueuePollIterable: the subscriber takes the next event from its queue *)
Consume(s) ==
  /\ mc.pc = "made"
  /\ mc.sub[s].pc = "in"
  /\ mc.queue[QueueOf(s)] # <<>>
  /\ mc' = [mc EXCEPT !.sub[s].got = Append(@, Head(mc.queue[QueueOf(s)])),
                      !.queue[QueueOf(s)] = Tail(@)]
  /\ UNCHANGED <<store, now, run, call, vt, timer, kx, vu>>

(* line 52 of _recv_event_from_producer, called by the producer thread     *)
(* with its next number                                                    *)
Emit ==
  /\ mc.pc = "made"
  /\ mc.running
  /\ mc.recv.pc = "idle"
  /\ mc.next < mc.producer_key
  /\ mc' = [mc EXCEPT !.log = Append(@, mc.next),
                      !.next = @ + 1,
                      !.recv = IF mc.present
                               THEN [pc |-> "got", pending |-> <<>>, event |-> mc.next]
                               ELSE NotReceiving]
  /\ UNCHANGED <<store, now, run, call, vt, timer, kx, vu>>

(* line 56, were only the first queue served *)
queues_to_put_first_only(m) == IF m.queues = <<>> THEN <<>> ELSE <<Head(m.queues)>>

(* line 56: list(ss.queues.values()) *)
queues_to_put(m) == m.queues

Snapshot ==
  /\ mc.pc = "made"
  /\ mc.recv.pc = "got"
  /\ mc' = [mc EXCEPT !.recv = IF queues_to_put(mc) = <<>>
                               THEN NotReceiving
                               ELSE [@ EXCEPT !.pc = "putting",
                                              !.pending = queues_to_put(mc)]]
  /\ UNCHANGED <<store, now, run, call, vt, timer, kx, vu>>

(* line 57: q.put(producer_event) *)
PutEvent ==
  /\ mc.pc = "made"
  /\ mc.recv.pc = "putting"
  /\ mc' = [mc EXCEPT !.queue[Head(mc.recv.pending)] = Append(@, mc.recv.event),
                      !.recv = IF Len(mc.recv.pending) = 1
                               THEN NotReceiving
                               ELSE [@ EXCEPT !.pending = Tail(@)]]
  /\ UNCHANGED <<store, now, run, call, vt, timer, kx, vu>>

NextMulticast ==
  \/ \E producer_key \in 1..NumNums : LazyMulticast(producer_key)
  \/ \E s \in Subscribers : Enter(s)
  \/ \E s \in Subscribers : Register(s)
  \/ \E s \in Subscribers : Leave(s)
  \/ \E s \in Subscribers : LeaveRaising(s)
  \/ \E s \in Subscribers : Consume(s)
  \/ Emit
  \/ Snapshot
  \/ PutEvent

SpecMulticast == Init /\ [][NextMulticast]_vars

(***************************************************************************)
(* lazy_batch_gets.py: lazy_batch_getting_transaction_builder, called by   *)
(* p1 while nothing else writes.  One step is one round of its outer loop: *)
(* the batch read, the clean transaction, and the inner loop that runs the *)
(* builder again and again, presuming None for each key a get does not     *)
(* know, until the builder ends, raises, or a require asks for a fetch.    *)
(***************************************************************************)
LazyBuilders ==
  {"noop", "read_all", "delete_a", "put_a", "increment_a", "require_a_put_b",
   "get_a_require_a", "get_b_require_a", "fail_without_a"}

lazy_batch_getting_transaction_builder(builder, item_keys_by_table_name) ==
  /\ run["p1"].pc = "idle"
  /\ run["p2"].pc = "idle"
  /\ builder \in LazyBuilders
  /\ item_keys_by_table_name \in {NoKeys, PrefetchA}
  /\ run' = [run EXCEPT !["p1"] =
       [Idle EXCEPT !.pc = "lazy",
                    !.builder = builder,
                    !.item_keys_by_table_name = item_keys_by_table_name,
                    !.calls = 1,
                    !.last = "call"]]
  /\ UNCHANGED <<store, now, call, vt, timer, kx, vu, mc>>

(* lines 36-56: the inner loop *)
RECURSIVE accumulate_gets(_, _, _, _, _)
accumulate_gets(builder, item_keys_by_table_name, clean_transaction, will_require_fetch, builds) ==
  LET built == transaction_builder(Programs[builder], Tx(clean_transaction, TRUE), None, TRUE)
  IN  IF built.kind # "raise"
        THEN [kind |-> IF will_require_fetch THEN "break" ELSE "return",
              keys |-> item_keys_by_table_name,
              clean |-> clean_transaction, built |-> built.tx, error |-> None,
              builds |-> builds + 1]
      ELSE IF built.exc = "ItemUndefinedException"
        THEN LET keys == add_item_to_base_request(item_keys_by_table_name,
                                                  built.table_name, built.key)
             IN  IF built.force_immediate_fetch
                   THEN [kind |-> "break", keys |-> keys,
                         clean |-> clean_transaction, built |-> EmptyTransaction,
                         error |-> None, builds |-> builds + 1]
                   ELSE accumulate_gets(
                          builder, keys,
                          presume(clean_transaction, built.table_name, built.key, None).tx,
                          TRUE, builds + 1)
      ELSE [kind |-> "raise", keys |-> item_keys_by_table_name,
            clean |-> clean_transaction, built |-> EmptyTransaction,
            error |-> built, builds |-> builds + 1]

(* lines 23-27 and the inner loop: one round of the outer loop *)
BatchGetAndBuild ==
  /\ run["p1"].pc = "lazy"
  /\ LET r == run["p1"]
         item_keys_by_table_name == parse_batch_get_request(r.item_keys_by_table_name)
         clean_transaction ==
           prepare_clean_transaction(item_keys_by_table_name,
                                     _ddb_batch_get_item(store, item_keys_by_table_name))
         looped == accumulate_gets(r.builder, item_keys_by_table_name,
                                   clean_transaction, FALSE, r.builds)
         fetched == [r EXCEPT !.item_keys_by_table_name = looped.keys,
                              !.clean_transaction = looped.clean,
                              !.built_transaction = looped.built,
                              !.reads = r.reads + 1,
                              !.builds = looped.builds,
                              !.first_clean = IF r.reads = 0 THEN clean_transaction ELSE @]
     IN  run' = [run EXCEPT !["p1"] =
           CASE looped.kind = "return" -> Finish(fetched, Returned(looped.built), "built")
             [] looped.kind = "raise" -> Finish(fetched, looped.error, "raised")
             [] looped.kind = "break" -> [fetched EXCEPT !.last = "not_yet_fetched"]]
  /\ UNCHANGED <<store, now, call, vt, timer, kx, vu, mc>>

NextLazy ==
  \/ \E builder \in LazyBuilders :
       \E item_keys_by_table_name \in {NoKeys, PrefetchA} :
         lazy_batch_getting_transaction_builder(builder, item_keys_by_table_name)
  \/ BatchGetAndBuild

SpecLazy == Init /\ [][NextLazy]_vars

(* Weak fairness of Fetch("p1"), WF_vars(Fetch("p1")), with its ENABLED     *)
(* written out: Fetch is enabled exactly when the caller is in the lazy    *)
(* loop, and every Fetch step changes run.                                 *)
FetchIsFair ==
  \/ []<>(run["p1"].pc # "fetch")
  \/ []<><<Fetch("p1")>>_vars

SpecSolo == Init /\ [][NextSolo]_vars /\ FetchIsFair

(***************************************************************************)
(* Properties                                                              *)
(***************************************************************************)

(* the baseline items of the pending commit that came from the batch read  *)
(* and that the builder did not write                                      *)
Unwritten(r) ==
  UNION {{<<t, h>> : h \in ((DOMAIN r.built_transaction.tables[t].items)
                            \ (DOMAIN r.built_transaction.tables[t].effects))
                           \cap (IF t \in DOMAIN r.clean_transaction.tables
                                   THEN DOMAIN r.clean_transaction.tables[t].items
                                   ELSE {})} :
         t \in DOMAIN r.built_transaction.tables}

(* the step of caller p is a commit attempt *)
Attempts(p) == run[p].pc = "write" /\ run'[p].writes = run[p].writes + 1

(* C1: two concurrent calls that each increment item a, both having first  *)
(* read it at item_version 3: both return, one after one commit attempt,   *)
(* the other after a first attempt refused by the version condition, a     *)
(* re-fetch that reads item_version 4 and a second attempt; the store ends *)
(* with both increments and item_version 5.                                *)
C1_ConcurrentIncrements ==
  (\A p \in Procs :
     /\ run[p].builder = "increment_a"
     /\ run[p].calls = 1
     /\ run[p].pc = "done"
     /\ run[p].first_clean.tables["T"].items[<<"a">>] = ItemA(3))
  => /\ \A p \in Procs : run[p].outcome.kind = "returned"
     /\ \E p, q \in Procs :
          /\ p # q
          /\ run[p].i = 0 /\ run[p].writes = 1 /\ run[p].error = None
          /\ run[q].i = 1 /\ run[q].writes = 2
          /\ run[q].error = ClientError("ConditionalCheckFailedException", {})
          /\ run[q].clean_transaction.tables["T"].items[<<"a">>].item_version = 4
     /\ store["T"][<<"a">>].item_version = 5
     /\ store["T"][<<"a">>].val = 3

C1_Witness ==
  /\ \A p \in Procs :
       /\ run[p].builder = "increment_a"
       /\ run[p].calls = 1
       /\ run[p].pc = "done"
       /\ run[p].first_clean.tables["T"].items[<<"a">>] = ItemA(3)
  /\ run["p2"].writes = 2
  /\ store["T"][<<"a">>].item_version = 5

(* C2: a commit attempt whose baseline holds an item that it read and does *)
(* not write, and that another caller has written once since the batch     *)
(* read, is refused as a whole on the condition check: nothing is written. *)
C2_UnmodifiedItemGuardsCommit ==
  [][\A p \in Procs :
       (Attempts(p) /\ Unwritten(run[p]) \cap run[p].changed_once # {})
       => /\ store' = store
          /\ run'[p].last # "committed"
          /\ run'[p].error =
               ClientError("TransactionCanceledException", {"ConditionalCheckFailed"})]_vars

C2_Witness ==
  /\ run["p1"].builder = "require_a_put_b"
  /\ run["p1"].last = "retry"
  /\ <<"T", <<"a">>>> \in run["p1"].changed_once
  /\ store["T"][<<"b">>] = None

(* C3: at every successful commit, each item that was read and not written *)
(* is in the store exactly as the builder saw it.                          *)
C3_UnwrittenItemsUnchangedAtCommit ==
  [][\A p \in Procs :
       (Attempts(p) /\ run'[p].last = "committed")
       => \A k \in Unwritten(run[p]) :
            store[k[1]][k[2]] = run[p].clean_transaction.tables[k[1]].items[k[2]]]_vars

(* C4: every successful commit leaves each item it put with an             *)
(* item_version one greater than the stored item had just before (0 for no *)
(* item or no version attribute).                                          *)
C4_VersionIncrementsByOne ==
  [][\A p \in Procs :
       (Attempts(p) /\ run'[p].last = "committed")
       => \A j \in DOMAIN TransactItemsOf(run[p]) :
            LET op == TransactItemsOf(run[p])[j] IN
            op.cmd = "Put"
            => store'[op.TableName][hashable_key(OpKey(op))].item_version =
                 ItemGet(StoredItem(store, op.TableName, OpKey(op)),
                         item_version_attribute, 0) + 1]_vars

(* C5: a round in which the builder records no effect ends the call at    *)
(* once with the clean transaction, without a commit attempt and without   *)
(* a change to the store.                                                  *)
C5_NoEffectsNoWrite ==
  [][\A p \in Procs :
       (/\ run[p].pc = "fetch"
        /\ run'[p].builds = run[p].builds + 1
        /\ LET built == transaction_builder(Programs[run[p].builder],
                                            Tx(run'[p].clean_transaction, TRUE),
                                            None, run[p].can_describe)
           IN  /\ built.kind = "tx"
               /\ \A t \in DOMAIN built.tx.tables :
                    DOMAIN built.tx.tables[t].effects = {})
       => /\ run'[p].pc = "done"
          /\ run'[p].outcome = Returned(run'[p].clean_transaction)
          /\ run'[p].writes = run[p].writes
          /\ run'[p].i = run[p].i
          /\ store' = store]_vars

C5_Witness ==
  /\ run["p1"].builder = "presume_b_absent"
  /\ run["p1"].last = "no_effects"
  /\ run["p1"].reads = 2
  /\ run["p1"].writes = 0

(* C6: in the clean and the built transaction of every caller, a put of    *)
(* the item that get resolves for a key gives back the very same           *)
(* transaction and records nothing.                                        *)
C6_PutOfEqualItemIsNoOp ==
  \A p \in Procs : \A tx \in {run[p].clean_transaction, run[p].built_transaction} :
    \A t \in DOMAIN tx.tables :
      \A h \in TouchedKeys(tx.tables[t]) :
        LET resolved == get(tx, t, hashable_key_to_key(tx.tables[t].key_attributes, h))
            w == put(tx, t, resolved.value, TRUE)
        IN  resolved.value # None => (w.kind = "tx" /\ w.same /\ w.tx = tx)

(* C7: a commit request holds no Put for an item whose effect equals its   *)
(* baseline, only a ConditionCheck, and a commit attempt of the builder    *)
(* that re-puts item a unchanged leaves the stored item a as it was.       *)
C7_EqualPutIsOnlyChecked ==
  [][\A p \in Procs :
       Attempts(p)
       => /\ \A j \in DOMAIN TransactItemsOf(run[p]) :
               LET op == TransactItemsOf(run[p])[j]
                   data == run[p].built_transaction.tables[op.TableName]
                   h == hashable_key(IF op.cmd = "Put"
                                       THEN key_from_item(data.key_attributes, op.Item)
                                       ELSE op.Key)
               IN  (/\ h \in DOMAIN data.items
                    /\ h \in DOMAIN data.effects
                    /\ data.effects[h] = data.items[h])
                   => op.cmd = "ConditionCheck"
          /\ run[p].builder = "reput_a"
             => store'["T"][<<"a">>] = store["T"][<<"a">>]]_vars

(* the keys the builder gets or requires when run on a transaction, each   *)
(* with whether the builder itself had presumed or written it before       *)
RECURSIVE reads_of(_, _, _, _, _)
reads_of(program, result, item, can_describe, seed) ==
  IF program = <<>> THEN {}
  ELSE
    LET ins == Head(program)
        rest == Tail(program)
    IN  IF ins.op \in {"get", "require"}
          THEN LET r == IF ins.op = "get" THEN get(result.tx, ins.table, ins.key)
                        ELSE require(result.tx, ins.table, ins.key)
                   h == hashable_key(ins.key)
                   own == /\ ins.table \in DOMAIN result.tx.tables
                          /\ h \in TouchedKeys(result.tx.tables[ins.table])
                          /\ ~ (/\ ins.table \in DOMAIN seed.tables
                                /\ h \in DOMAIN seed.tables[ins.table].items)
               IN  {[table |-> ins.table, hkey |-> h, own |-> own]}
                   \cup (IF r.kind = "raise" THEN {}
                         ELSE reads_of(rest, result, r.value, can_describe, seed))
        ELSE IF ins.op = "return_if_none" /\ item = None THEN {}
        ELSE LET w == transaction_builder(<<ins>>, result, item, can_describe)
             IN  IF w.kind = "raise" THEN {}
                 ELSE reads_of(rest, w, item, can_describe, seed)

ReadsOf(r) ==
  reads_of(Programs[r.builder], Tx(r.clean_transaction, TRUE), None, r.can_describe,
           r.clean_transaction)

InSeed(r, read) ==
  /\ read.table \in DOMAIN r.clean_transaction.tables
  /\ read.hkey \in DOMAIN r.clean_transaction.tables[read.table].items

KeysOf(item_keys_by_table_name) ==
  UNION {{<<t, k>> : k \in item_keys_by_table_name.keys[t]} :
         t \in DOMAIN item_keys_by_table_name.keys}

(* C8 as stated: when the lazy loop returns, the clean transaction holds   *)
(* every key the builder got or required.                                  *)
C8_SeedHoldsEveryRead ==
  \A p \in Procs :
    run[p].last \in {"built", "no_effects"}
    => \A read \in ReadsOf(run[p]) : InSeed(run[p], read)

(* C8: the lazy loop of a caller ends; every restart asks for strictly     *)
(* more keys than the round before it fetched; and when the loop returns,  *)
(* the clean transaction holds every key the builder got or required,      *)
(* but for the keys it had itself presumed or written before reading them. *)
C8_LazyLoopConverges ==
  /\ [][\A p \in Procs :
          (run[p].pc = "fetch" /\ run'[p].last = "not_yet_fetched"
           /\ run'[p].reads = run[p].reads + 1)
          => /\ KeysOf(run[p].item_keys_by_table_name)
                  \subseteq KeysOf(run'[p].item_keys_by_table_name)
             /\ KeysOf(run[p].item_keys_by_table_name)
                  # KeysOf(run'[p].item_keys_by_table_name)]_vars
  /\ [](\A p \in Procs :
          run[p].last \in {"built", "no_effects"}
          => \A read \in ReadsOf(run[p]) : read.own \/ InSeed(run[p], read))
  /\ \A p \in Procs : (run[p].pc = "fetch") ~> (run[p].pc # "fetch")

C8_Witness ==
  /\ run["p1"].builder = "read_all"
  /\ run["p1"].last = "no_effects"
  /\ run["p1"].reads = 4
  /\ Cardinality(ReadsOf(run["p1"])) = 3

(* C9: no call ends by raising ItemUndefinedException; a round in which    *)
(* the builder raises it leaves the caller in the lazy loop with the key   *)
(* added to the keys to fetch, and the next step of the caller is a batch  *)
(* read of all those keys followed by a fresh run of the builder.          *)
C9_UndefinedItemIsFetched ==
  /\ [](\A p \in Procs :
          run[p].outcome.kind = "raise" => run[p].outcome.exc # "ItemUndefinedException")
  /\ [][\A p \in Procs :
          (run[p].pc = "fetch" /\ run'[p].builds = run[p].builds + 1)
          => LET built == transaction_builder(Programs[run[p].builder],
                                              Tx(run'[p].clean_transaction, TRUE),
                                              None, run[p].can_describe)
             IN  (built.kind = "raise" /\ built.exc = "ItemUndefinedException")
                 => /\ run'[p].pc = "fetch"
                    /\ run'[p].i = run[p].i
                    /\ <<built.table_name, built.key>>
                         \in KeysOf(run'[p].item_keys_by_table_name)]_vars
  /\ [][\A p \in Procs :
          (run[p].last = "not_yet_fetched"
           /\ (run'[p].pc # run[p].pc \/ run'[p].reads # run[p].reads))
          => /\ run'[p].reads = run[p].reads + 1
             /\ run'[p].builds = run[p].builds + 1
             /\ \A k \in KeysOf(run[p].item_keys_by_table_name) :
                  hashable_key(k[2]) \in DOMAIN run'[p].clean_transaction.tables[k[1]].items]_vars

C9_Witness ==
  /\ run["p1"].builder = "require_a_put_b"
  /\ run["p1"].last = "built"
  /\ run["p1"].reads = 2
  /\ run["p1"].builds = 2
  /\ <<"a">> \in DOMAIN run["p1"].clean_transaction.tables["T"].items

(* C10: a commit attempt that fails with a ClientError that                *)
(* is_cancelled_and_retryable refuses ends the call with that very error,  *)
(* and a call that has ended does nothing more.                            *)
C10_NotRetryableIsRaisedAtOnce ==
  /\ [][\A p \in Procs :
          (/\ Attempts(p)
           /\ run'[p].last # "committed"
           /\ ~ is_cancelled_and_retryable(run'[p].error))
          => /\ run'[p].pc = "done"
             /\ run'[p].outcome = RaisedClientError(run'[p].error)]_vars
  /\ [][\A p \in Procs :
          (run[p].pc = "done" /\ run'[p].calls = run[p].calls) => run'[p] = run[p]]_vars

C10_Witness ==
  /\ run["p1"].last = "not_retryable"
  /\ run["p1"].i + 1 < MaxAttempts
  /\ run["p1"].outcome =
       RaisedClientError(ClientError("ResourceNotFoundException", {}))

(* the keys of a table of a transaction, each as an ItemKey over the key    *)
(* attributes of that table                                                *)
OwnKeys(table_data) ==
  {hashable_key_to_key(table_data.key_attributes, h) : h \in TouchedKeys(table_data)}

(* C11: a commit attempt that fails with a retryable error, with attempts  *)
(* left, puts the caller back in the lazy loop asking, for each table of   *)
(* the failed transaction, for exactly the keys of its items and effects,  *)
(* each over that table's own key attributes; and the round that follows   *)
(* runs the builder on a clean transaction read from the store as it then  *)
(* is, with no effect in it.                                               *)
C11_RetryRefetchesTouchedKeys ==
  /\ [][\A p \in Procs :
          (/\ Attempts(p)
           /\ run'[p].last # "committed"
           /\ is_cancelled_and_retryable(run'[p].error)
           /\ run[p].i + 1 < MaxAttempts)
          => /\ run'[p].pc = "fetch"
             /\ run'[p].i = run[p].i + 1
             /\ DOMAIN run'[p].item_keys_by_table_name.keys
                  = DOMAIN run[p].built_transaction.tables
             /\ \A t \in DOMAIN run[p].built_transaction.tables :
                  run'[p].item_keys_by_table_name.keys[t]
                    = OwnKeys(run[p].built_transaction.tables[t])]_vars
  /\ [][\A p \in Procs :
          (run[p].last = "retry" /\ run'[p].builds = run[p].builds + 1)
          => \A t \in DOMAIN run'[p].clean_transaction.tables :
               LET data == run'[p].clean_transaction.tables[t] IN
               /\ DOMAIN data.effects = {}
               /\ \A h \in DOMAIN data.items : data.items[h] = store[t][h]]_vars

(* C12: a commit attempt that fails with a retryable error either leaves   *)
(* the call in its loop, when attempts remain, or, when it was the last of *)
(* the MaxAttempts attempts, ends the call with TransactionAttemptsOverrun *)
(* that tells MaxAttempts attempts and carries the built transaction that  *)
(* was refused, after exactly MaxAttempts commit attempts.                 *)
C12_OverrunAfterEveryAttemptFailed ==
  [][\A p \in Procs :
       (/\ Attempts(p)
        /\ run'[p].last # "committed"
        /\ is_cancelled_and_retryable(run'[p].error))
       => IF run[p].i + 1 < MaxAttempts
            THEN /\ run'[p].pc = "fetch"
                 /\ run'[p].outcome = NoOutcome
                 /\ run'[p].writes = run'[p].i
            ELSE /\ run'[p].pc = "done"
                 /\ run'[p].writes = MaxAttempts
                 /\ run'[p].outcome =
                      TransactionAttemptsOverrun(MaxAttempts, run[p].built_transaction)]_vars

(* the failure is an in-progress conflicting transaction, or a cancelled   *)
(* transaction all of whose cancellation reasons may be retried            *)
TransactionFailureMayBeRetried(ce) ==
  \/ ce.Code = "TransactionInProgressException"
  \/ /\ ce.Code = "TransactionCanceledException"
     /\ ce.CancellationReasons \subseteq
          {"ConditionalCheckFailed", "TransactionConflict", "ThrottlingError",
           "ProvisionedThroughputExceeded"}

(* C13 as stated: a failed commit attempt is taken to be retryable exactly *)
(* when it is an in-progress conflicting transaction or a cancelled        *)
(* transaction whose reasons all may be retried; any other error ends the  *)
(* call as not retryable.                                                  *)
C13_OnlyTransactionFailuresRetried ==
  [][\A p \in Procs :
       (Attempts(p) /\ run'[p].last # "committed")
       => ((run'[p].last # "not_retryable")
           <=> TransactionFailureMayBeRetried(run'[p].error))]_vars

(* C13: a failed commit attempt is taken to be retryable exactly when it   *)
(* is an in-progress conflicting transaction, a cancelled transaction      *)
(* whose reasons (none included) all may be retried, or the failure of a   *)
(* single-item conditional write, ConditionalCheckFailedException or       *)
(* TransactionConflictException; any other error ends the call as not      *)
(* retryable.                                                              *)
C13_DefaultClassifier ==
  [][\A p \in Procs :
       (Attempts(p) /\ run'[p].last # "committed")
       => ((run'[p].last # "not_retryable")
           <=> \/ TransactionFailureMayBeRetried(run'[p].error)
               \/ run'[p].error.Code \in {"ConditionalCheckFailedException",
                                          "TransactionConflictException"})]_vars

C13_Witness ==
  /\ run["p1"].last = "retry"
  /\ run["p1"].writes = 1
  /\ run["p1"].error = ClientError("ConditionalCheckFailedException", {})

(* the pending commit request of the caller is a single Put or Delete *)
SingleWrite(r) ==
  /\ r.pc = "write"
  /\ Len(built_transaction_to_transact_write_items_args(r.built_transaction, now)) = 1
  /\ built_transaction_to_transact_write_items_args(r.built_transaction, now)[1].cmd
       \in {"Put", "Delete"}

(* C14: whenever the pending commit request of a caller is a single Put or *)
(* a single Delete, the default transact_write_items (which sends it as a  *)
(* conditional put_item or delete_item) and TransactWriteItems on the same *)
(* request agree on the current store: both succeed or both fail, on       *)
(* success they leave the same store, and when the condition does not hold *)
(* both fail with an error that is_cancelled_and_retryable accepts.        *)
C14_SingleItemPathAgrees ==
  \A p \in Procs :
    SingleWrite(run[p])
    => LET TransactItems == TransactItemsOf(run[p])
           single == boto3_transact_multiple_but_optimize_single(store, TransactItems)
           general == ddb_transact_write_items(store, TransactItems)
       IN  /\ single.called \in {"put_item", "delete_item"}
           /\ general.called = "transact_write_items"
           /\ single.ok = general.ok
           /\ single.ok => single.store = general.store
           /\ (OpValid(TransactItems[1]) /\ ~ OpHolds(store, TransactItems[1]))
              => /\ ~ single.ok /\ ~ general.ok
                 /\ is_cancelled_and_retryable(single.error)
                 /\ is_cancelled_and_retryable(general.error)

C14_Witness ==
  /\ SingleWrite(run["p1"])
  /\ run["p1"].builder = "increment_a"
  /\ <<"T", <<"a">>>> \in run["p1"].changed_once
  /\ ~ OpHolds(store, TransactItemsOf(run["p1"])[1])
  /\ SingleWrite(run["p2"])
  /\ OpHolds(store, TransactItemsOf(run["p2"])[1])

(* the one operation of the latest direct call, when it had exactly one *)
OneOperation == call.made /\ Len(call.TransactItems) = 1

(* C15 as stated: a direct call of the default transact_write_items with   *)
(* exactly one operation fails whenever the condition of that operation    *)
(* does not hold in the store, be it a Put, a Delete or a ConditionCheck.  *)
C15_SingleOperationIsConditional ==
  (OneOperation /\ ~ OpHolds(call.before, call.TransactItems[1])) => ~ call.ok

(* C15: a direct call of the default transact_write_items with exactly one *)
(* operation that is a Put or a Delete fails, leaving the store as it was, *)
(* whenever the condition of that operation does not hold in the store,    *)
(* and applies the operation when it holds; a single ConditionCheck is not *)
(* evaluated at all: the call succeeds whether its condition holds or not. *)
C15_SinglePutOrDeleteIsConditional ==
  OneOperation
  => LET op == call.TransactItems[1] IN
     IF op.cmd \in {"Put", "Delete"}
       THEN /\ call.ok <=> OpHolds(call.before, op)
            /\ ~ call.ok => (store = call.before
                             /\ call.error = ClientError("ConditionalCheckFailedException", {}))
            /\ call.ok => store = Applied(call.before, call.TransactItems)
       ELSE call.ok /\ store = call.before

C15_Witness ==
  /\ OneOperation
  /\ call.TransactItems[1].cmd = "Put"
  /\ ~ OpHolds(call.before, call.TransactItems[1])
  /\ ~ call.ok

(* C16: a direct call of the default transact_write_items with no          *)
(* operation, or with a ConditionCheck as its only operation, succeeds     *)
(* without any call of the store client and leaves the store as it was;    *)
(* with a Put as its only operation it calls put_item, with a Delete       *)
(* delete_item.                                                            *)
C16_NothingToDoNoClientCall ==
  call.made
  => /\ (\/ Len(call.TransactItems) = 0
         \/ OneOperation /\ call.TransactItems[1].cmd = "ConditionCheck")
        => (call.ok /\ call.called = "none" /\ store = call.before)
     /\ (OneOperation /\ call.TransactItems[1].cmd = "Put")
        => call.called = "put_item"
     /\ (OneOperation /\ call.TransactItems[1].cmd = "Delete")
        => call.called = "delete_item"

C16_Witness ==
  /\ OneOperation
  /\ call.TransactItems[1].cmd = "ConditionCheck"
  /\ ~ OpHolds(call.before, call.TransactItems[1])
  /\ call.ok
  /\ call.called = "none"

(* the builders that write item a without reading it *)
Optimistic == {"opt_put_a", "opt_delete_a"}

(* C17: the first commit attempt of a builder that puts or deletes item a  *)
(* without having it in its baseline succeeds exactly when item a does not *)
(* exist in the store; when it exists the attempt is refused, the call     *)
(* goes back to fetch item a, and the builder runs a second time, on the   *)
(* item as stored.                                                         *)
C17_OptimisticWriteCreatesOnly ==
  /\ [][\A p \in Procs :
          (Attempts(p) /\ run[p].builder \in Optimistic /\ run[p].i = 0)
          => /\ (run'[p].last = "committed") <=> (store["T"][<<"a">>] = None)
             /\ run'[p].last # "committed"
                => /\ run'[p].last = "retry"
                   /\ run'[p].item_keys_by_table_name.keys["T"] = {KeyA}]_vars
  /\ [][\A p \in Procs :
          (/\ run[p].builder \in Optimistic
           /\ run[p].last = "retry"
           /\ run'[p].reads = run[p].reads + 1)
          => /\ run'[p].builds = 2
             /\ run'[p].clean_transaction.tables["T"].items[<<"a">>] = store["T"][<<"a">>]
             /\ run'[p].pc = "write"]_vars

(* a builder with its presume statements left out *)
WithoutPresume(program) == SelectSeq(program, LAMBDA ins : ins.op # "presume")

(* the store after the writes of the builder of r, had it no presume       *)
(* statement and the true value of every item before it                    *)
WrittenWithoutPresume(tbl, r) ==
  LET informed == prepare_clean_transaction(AllKeys, _ddb_batch_get_item(tbl, AllKeys))
      built == transaction_builder(WithoutPresume(Programs[r.builder]),
                                   Tx(informed, TRUE), None, r.can_describe)
  IN  IF built.kind = "raise" THEN tbl
      ELSE Applied(tbl, built_transaction_to_transact_write_items_args(built.tx, now))

(* the value the builder of r presumes for item a is not the stored one *)
PresumesWrongly(r) ==
  \E j \in DOMAIN Programs[r.builder] :
    LET ins == Programs[r.builder][j] IN
    /\ ins.op = "presume"
    /\ ins.key = KeyA
    /\ ins.value # store[ins.table][hashable_key(ins.key)]

(* C18: every successful commit leaves the store as the same builder       *)
(* without its presume statements, given the true values, would leave it;  *)
(* and the first commit attempt of a builder that presumed, for item a, a  *)
(* value other than the stored one fails, and unless the failure is not    *)
(* retryable sends the call back to fetch the item.                        *)
C18_PresumeDoesNotChangeWrites ==
  /\ [][\A p \in Procs :
          (Attempts(p) /\ run'[p].last = "committed")
          => store' = WrittenWithoutPresume(store, run[p])]_vars
  /\ [][\A p \in Procs :
          (Attempts(p) /\ run[p].i = 0 /\ run[p].reads = 1 /\ PresumesWrongly(run[p]))
          => /\ store' = store
             /\ run'[p].last # "committed"
             /\ is_cancelled_and_retryable(run'[p].error)
                => /\ run'[p].last = "retry"
                   /\ run'[p].item_keys_by_table_name.keys["T"] = {KeyA}]_vars

(* C19: when a commit succeeds, get on the transaction that the call       *)
(* returns yields, for every key the transaction wrote, the item as the    *)
(* commit left it in the store: the stored item, item_version and          *)
(* last_written_at included, for a put, and None for a delete.             *)
C19_ReturnedTransactionHoldsStoredItems ==
  [][\A p \in Procs :
       (Attempts(p) /\ run'[p].last = "committed")
       => /\ run'[p].outcome.kind = "returned"
          /\ \A t \in DOMAIN run[p].built_transaction.tables :
               LET data == run[p].built_transaction.tables[t] IN
               \A h \in DOMAIN data.effects :
                 get(run'[p].outcome.tx, t, hashable_key_to_key(data.key_attributes, h))
                   = Value(store'[t][h])]_vars

(* C20: when a call returns because the builder recorded no effect, get on *)
(* the returned transaction yields, for every key of a presume statement   *)
(* of the builder, what get yields on the transaction the builder built:   *)
(* the presumed value (None included), not ItemUndefinedException.         *)
C20_PresumedItemsAreReturned ==
  \A p \in Procs :
    (run[p].last = "no_effects" /\ run[p].outcome.kind = "returned")
    => LET built == transaction_builder(Programs[run[p].builder],
                                        Tx(run[p].clean_transaction, TRUE),
                                        None, run[p].can_describe)
       IN  \A j \in DOMAIN Programs[run[p].builder] :
             LET ins == Programs[run[p].builder][j] IN
             ins.op = "presume"
             => /\ get(built.tx, ins.table, ins.key).kind = "value"
                /\ get(run[p].outcome.tx, ins.table, ins.key)
                     = get(built.tx, ins.table, ins.key)

(***************************************************************************)
(* Transactions built by hand                                              *)
(***************************************************************************)
(* the step just taken was a call of one of ops *)
Called(ops) == vt'.steps = vt.steps + 1 /\ vt'.ins.op \in ops

ItemsOf(transaction, table) ==
  IF table \in DOMAIN transaction.tables
    THEN transaction.tables[table].items ELSE EmptyDict

EffectsOf(transaction, table) ==
  IF table \in DOMAIN transaction.tables
    THEN transaction.tables[table].effects ELSE EmptyDict

OtherTablesUnchanged(before, after, table) ==
  /\ DOMAIN after.tables = DOMAIN before.tables \cup {table}
  /\ \A t \in DOMAIN before.tables \ {table} : after.tables[t] = before.tables[t]

(* C21: presume(tx, table, key, v) returns the transaction it was given,   *)
(* unchanged, whenever the key is already in the table's items or in its   *)
(* effects, whatever v; otherwise it adds v as the baseline value of the   *)
(* key and changes nothing else.                                           *)
C21_PresumeOfKnownKeyIsNoOp ==
  [][Called({"presume"}) =>
       LET ins == vt'.ins
           hkey == hashable_key(ins.key)
       IN  IF hkey \in DOMAIN ItemsOf(vt.tx, ins.table)
              \/ hkey \in DOMAIN EffectsOf(vt.tx, ins.table)
             THEN vt'.result = Tx(vt.tx, TRUE)
             ELSE /\ vt'.result.kind = "tx"
                  /\ ~ vt'.result.same
                  /\ ItemsOf(vt'.tx, ins.table)
                       = WithEntry(ItemsOf(vt.tx, ins.table), hkey, ins.value)
                  /\ EffectsOf(vt'.tx, ins.table) = EffectsOf(vt.tx, ins.table)
                  /\ OtherTablesUnchanged(vt.tx, vt'.tx, ins.table)]_vars

(* what a key resolves to in a transaction: its effect, else its baseline *)
Known(transaction, table, key) ==
  \/ hashable_key(key) \in DOMAIN EffectsOf(transaction, table)
  \/ hashable_key(key) \in DOMAIN ItemsOf(transaction, table)

Resolved(transaction, table, key) ==
  IF hashable_key(key) \in DOMAIN EffectsOf(transaction, table)
    THEN EffectsOf(transaction, table)[hashable_key(key)]
    ELSE ItemsOf(transaction, table)[hashable_key(key)]

IsRaised(result, exc) == result.kind = "raise" /\ result.exc = exc

(* C22: require raises ItemNotFound exactly when the key resolves to None  *)
(* (known absent, or pending delete) and the not-yet-known signal exactly  *)
(* when the key is unknown; so after presume(tx, table, key, None) on an   *)
(* empty transaction, require of that key raises ItemNotFound.             *)
C22_RequireOfAbsentIsNotFound ==
  [][Called({"require"}) =>
       LET ins == vt'.ins
           known == Known(vt.tx, ins.table, ins.key)
       IN  /\ IsRaised(vt'.result, "ItemNotFoundException")
                <=> (known /\ Resolved(vt.tx, ins.table, ins.key) = None)
           /\ IsRaised(vt'.result, "ItemUndefinedException") <=> ~ known
           /\ (vt.steps = 1 /\ vt.before = EmptyTransaction
               /\ vt.ins = Presume(ins.table, ins.key, None))
                => vt'.result = ItemNotFoundException(ins.table, ins.key)]_vars

C22_Witness ==
  /\ vt.steps = 2
  /\ vt.before = presume(EmptyTransaction, "T", KeyB, None).tx
  /\ vt.ins = Require("T", KeyB)
  /\ vt.result = ItemNotFoundException("T", KeyB)

(* the item or key that a put or delete instruction was given *)
Source(ins) == IF ins.op = "put" THEN dynamodb_prewrite(ins.item) ELSE ins.key

(* the effect that a put or delete instruction records *)
EffectOf(ins) == IF ins.op = "put" THEN dynamodb_prewrite(ins.item) ELSE None

(* the key that a successful put or delete wrote, in the transaction made *)
WrittenKey(transaction, ins) ==
  key_from_item(transaction.tables[ins.table].key_attributes, Source(ins))

(* every effect is filed under the key of its own item, so that no key of  *)
(* a table has two effects                                                 *)
OneEffectPerKey(transaction) ==
  \A t \in DOMAIN transaction.tables :
    LET data == transaction.tables[t] IN
    \A h \in DOMAIN data.effects :
      /\ Len(h) = Len(data.key_attributes)
      /\ data.effects[h] # None
           => hashable_key(key_from_item(data.key_attributes, data.effects[h])) = h

(* C23: the last put or delete recorded for a key wins: after a put then a *)
(* delete of a key its effect is None and get returns None, after a delete *)
(* then a put the effect is the item put; no key ever has two effects.     *)
C23_LastWriteWins ==
  /\ [](OneEffectPerKey(vt.tx))
  /\ [][(Called({"put", "delete"}) /\ vt'.result.kind = "tx") =>
          LET ins == vt'.ins
              key == WrittenKey(vt'.tx, ins)
          IN  /\ EffectsOf(vt'.tx, ins.table)
                   = WithEntry(EffectsOf(vt.tx, ins.table), hashable_key(key), EffectOf(ins))
              /\ get(vt'.tx, ins.table, key) = Value(EffectOf(ins))]_vars

C23_Witness ==
  /\ vt.ins = DeleteKey("T", KeyA)
  /\ <<"a">> \in DOMAIN EffectsOf(vt.before, "T")
  /\ EffectsOf(vt.before, "T")[<<"a">>] = [id |-> "a", val |-> 2]
  /\ EffectsOf(vt.tx, "T")[<<"a">>] = None
  /\ get(vt.tx, "T", KeyA) = Value(None)

C25_GetReadsEffectThenBaseline ==
  [][Called({"get"}) =>
       LET ins == vt'.ins
           hkey == hashable_key(ins.key)
           items == ItemsOf(vt.tx, ins.table)
           effects == EffectsOf(vt.tx, ins.table)
       IN  /\ hkey \in DOMAIN effects => vt'.result = Value(effects[hkey])
           /\ (hkey \notin DOMAIN effects /\ hkey \in DOMAIN items)
                => vt'.result = Value(items[hkey])
           /\ vt'.result.kind = "raise"
                <=> \/ ins.table \notin DOMAIN vt.tx.tables
                    \/ (hkey \notin DOMAIN effects /\ hkey \notin DOMAIN items)
           /\ vt'.result.kind = "raise"
                => /\ vt'.result.exc = "ItemUndefinedException"
                   /\ vt'.result.table_name = ins.table
                   /\ vt'.result.key = ins.key
           /\ vt'.tx = vt.tx]_vars

C25_Witness ==
  /\ vt.ins = Get("T", KeyA)
  /\ <<"a">> \in DOMAIN ItemsOf(vt.tx, "T")
  /\ ItemsOf(vt.tx, "T")[<<"a">>] # None
  /\ <<"a">> \in DOMAIN EffectsOf(vt.tx, "T")
  /\ EffectsOf(vt.tx, "T")[<<"a">>] = None
  /\ vt.result = Value(None)

(* C26: define_table on a table already present in the transaction         *)
(* (defined, fetched, presumed or written before) returns the identical    *)
(* transaction, so a second define_table in a row returns the object the   *)
(* first returned; on a table not yet seen it adds the sorted key          *)
(* attributes with empty items and effects.                                *)
C26_DefineTableDoesNotRedefine ==
  [][Called({"define_table"}) =>
       LET ins == vt'.ins
       IN  /\ ins.table \in DOMAIN vt.tx.tables => vt'.result = Tx(vt.tx, TRUE)
           /\ ins.table \notin DOMAIN vt.tx.tables
                => /\ vt'.result.kind = "tx"
                   /\ ~ vt'.result.same
                   /\ OtherTablesUnchanged(vt.tx, vt'.tx, ins.table)
                   /\ vt'.tx.tables[ins.table]
                        = _TableData(EmptyDict, EmptyDict, sorted(ins.key_attributes))
           /\ (vt.ins = ins /\ vt.result.kind = "tx")
                => vt'.result = Tx(vt.result.tx, TRUE)]_vars

C26_Witness ==
  /\ vt.ins = DefineTable("U", {"grp", "id"})
  /\ vt.steps >= 2
  /\ "U" \in DOMAIN vt.before.tables
  /\ vt.before.tables["U"] = _TableData(EmptyDict, EmptyDict, <<"grp", "id">>)
  /\ vt.result = Tx(vt.before, TRUE)

(* C27: on a table unknown to the transaction whose key schema cannot be   *)
(* obtained, put raises TableSchemaUnknownError, and delete raises it when *)
(* the mapping given has more than 2 attributes and otherwise succeeds     *)
(* with the sorted attribute names of the key given as the table's key     *)
(* attributes; on a table already known put and delete never raise         *)
(* TableSchemaUnknownError and project the key out of a full item.         *)
C27_TableSchemaUnknown ==
  [][Called({"put", "delete"}) =>
       LET ins == vt'.ins
           source == Source(ins)
       IN  IF ins.table \in DOMAIN vt.tx.tables
             THEN LET key_attributes == vt.tx.tables[ins.table].key_attributes
                      key == [a \in Range(key_attributes) |-> source[a]]
                  IN  /\ ~ IsRaised(vt'.result, "TableSchemaUnknownError")
                      /\ Range(key_attributes) \subseteq DOMAIN source
                           => /\ vt'.result.kind = "tx"
                              /\ vt'.tx.tables[ins.table].key_attributes = key_attributes
                              /\ hashable_key(key) \in DOMAIN EffectsOf(vt'.tx, ins.table)
                              /\ get(vt'.tx, ins.table, key) = Value(EffectOf(ins))
             ELSE ~ vt'.can_describe
                    => IF ins.op = "put" \/ Cardinality(DOMAIN source) > 2
                         THEN IsRaised(vt'.result, "TableSchemaUnknownError")
                         ELSE /\ vt'.result.kind = "tx"
                              /\ vt'.tx.tables[ins.table].key_attributes
                                   = sorted(DOMAIN source)
                              /\ EffectsOf(vt'.tx, ins.table)
                                   = WithEntry(EmptyDict, hashable_key(source), None)]_vars

C27_Witness ==
  /\ vt.ins = DeleteKey("T", ItemA(1))
  /\ ~ vt.can_describe
  /\ DOMAIN vt.before.tables = {"U"}
  /\ IsRaised(vt.result, "TableSchemaUnknownError")
  /\ vt.tx = vt.before

(***************************************************************************)
(* Key conversions                                                         *)
(***************************************************************************)
BothHashed ==
  kx.pc # "unused" /\ kx.hkey.kind = "value" /\ kx.other_hkey.kind = "value"

KeysConvert ==
  kx.pc # "unused" =>
    /\ kx.hkey.kind = "raise" <=> Cardinality(DOMAIN kx.key) \notin {1, 2}
    /\ kx.pc = "restored" => kx.back = Value(kx.key)

(* C28, as stated: for every key of 1 or 2 attributes, converting its      *)
(* hashable key back under the sorted attribute names gives the key; two   *)
(* keys have equal hashable keys exactly when they have equal values for   *)
(* the same attributes; hashable_key fails for 0 or more than 2            *)
(* attributes.                                                             *)
C28_KeysRoundTripAndDistinguish ==
  /\ KeysConvert
  /\ BothHashed => (kx.hkey = kx.other_hkey <=> kx.key = kx.other)

(* C28, amended: the hashable key holds the values only, so it tells apart *)
(* keys of the same attribute names and no others.                         *)
C28_KeysOfOneSchemaDistinguished ==
  /\ KeysConvert
  /\ (BothHashed /\ DOMAIN kx.key = DOMAIN kx.other)
       => (kx.hkey = kx.other_hkey <=> kx.key = kx.other)
  /\ (BothHashed /\ kx.hkey = kx.other_hkey)
       => /\ Cardinality(DOMAIN kx.key) = Cardinality(DOMAIN kx.other)
          /\ \A i \in 1..Len(kx.hkey.value) :
               kx.key[sorted(DOMAIN kx.key)[i]] = kx.other[sorted(DOMAIN kx.other)[i]]

C28_Witness ==
  /\ kx.pc = "restored"
  /\ kx.key = [grp |-> "a", id |-> "b"]
  /\ kx.other = [id |-> "a", note |-> "b"]
  /\ kx.hkey = kx.other_hkey
  /\ kx.back = Value(kx.key)

(***************************************************************************)
(* The commit request                                                      *)
(***************************************************************************)
Requested == vt.ins.op = "request" /\ vt.result.kind = "request"

(* the keys of a transaction, each with its table *)
KeysIn(transaction) ==
  UNION {{<<t, h>> : h \in (DOMAIN transaction.tables[t].items)
                            \cup (DOMAIN transaction.tables[t].effects)} :
         t \in DOMAIN transaction.tables}

(* the operations of a request that are about key h of table t *)
OperationsOn(TransactItems, transaction, t, h) ==
  {i \in DOMAIN TransactItems :
     /\ TransactItems[i].TableName = t
     /\ hashable_key(IF TransactItems[i].cmd = "Put"
                       THEN key_from_item(transaction.tables[t].key_attributes,
                                          TransactItems[i].Item)
                       ELSE TransactItems[i].Key) = h}

(* the version of the baseline item of a key, 0 when there is none *)
BaselineVersion(transaction, t, h) ==
  LET items == transaction.tables[t].items IN
  IF h \in DOMAIN items /\ items[h] # None /\ item_version_attribute \in DOMAIN items[h]
    THEN items[h][item_version_attribute] ELSE 0

(* C29: the commit request holds exactly one operation for every key in    *)
(* the items or effects of every table and nothing else: a Delete when the *)
(* effect is None, a Put of the effect item with item_version the expected *)
(* version plus one and last_written_at the commit timestamp otherwise,    *)
(* and a ConditionCheck for a baseline key without effect; every operation *)
(* is conditioned on the baseline version of its key (0 when the item is   *)
(* absent or unknown); all Puts carry the same last_written_at.            *)
C29_CommitRequestCoversEveryKey ==
  Requested =>
    LET TransactItems == vt.result.TransactItems
        ts == vt.ins.last_written_at_str
    IN  /\ Len(TransactItems) = Cardinality(KeysIn(vt.tx))
        /\ \A k \in KeysIn(vt.tx) :
             LET t == k[1]
                 h == k[2]
                 effects == vt.tx.tables[t].effects
                 on == OperationsOn(TransactItems, vt.tx, t, h)
                 expected_version == BaselineVersion(vt.tx, t, h)
             IN  /\ Cardinality(on) = 1
                 /\ \A i \in on :
                      LET op == TransactItems[i] IN
                      /\ op.Condition.curItemVersion = expected_version
                      /\ op.Condition.itemVersion = item_version_attribute
                      /\ op.cmd = IF h \notin DOMAIN effects THEN "ConditionCheck"
                                  ELSE IF effects[h] = None THEN "Delete" ELSE "Put"
                      /\ op.cmd = "Put"
                           => op.Item = DictMerge(effects[h],
                                          [last_written_at |-> ts,
                                           item_version |-> expected_version + 1])
        /\ \A i, j \in DOMAIN TransactItems :
             (TransactItems[i].cmd = "Put" /\ TransactItems[j].cmd = "Put")
               => TransactItems[i].Item[last_written_attribute]
                    = TransactItems[j].Item[last_written_attribute]

C29_Witness ==
  /\ Requested
  /\ \E i, j, k \in DOMAIN vt.result.TransactItems :
       /\ vt.result.TransactItems[i].cmd = "Put"
       /\ vt.result.TransactItems[i].Condition.curItemVersion = 1
       /\ vt.result.TransactItems[i].Item[item_version_attribute] = 2
       /\ vt.result.TransactItems[j].cmd = "ConditionCheck"
       /\ vt.result.TransactItems[k].cmd \in {"Put", "Delete"}
       /\ k # i

(***************************************************************************)
(* timed_retry                                                             *)
(***************************************************************************)
(* C30: timed_retry always yields a first attempt, yields at most          *)
(* max_attempts_before_expiration attempts (for a maximum of at least 1),  *)
(* never yields an attempt once the deadline has passed, and never sleeps  *)
(* past the deadline; when the attempts themselves take no time it yields  *)
(* exactly max_attempts_before_expiration attempts before it stops.        *)
C30_TimedRetryIsBounded ==
  timer.pc # "unused" =>
    /\ timer.attempt >= 1
    /\ timer.max_attempts_before_expiration >= 1
         => timer.attempt <= timer.max_attempts_before_expiration
    /\ timer.yielded_at <= timer.expiring_at
    /\ timer.sleep > 0 => timer.slept_until <= timer.expiring_at
    /\ (timer.pc = "stopped" /\ timer.took = 0
        /\ timer.max_attempts_before_expiration >= 1)
         => timer.attempt = timer.max_attempts_before_expiration

C30_Witness ==
  /\ timer.pc = "stopped"
  /\ timer.took = 0
  /\ timer.random_sleep_length
  /\ timer.sleep > 0
  /\ timer.max_attempts_before_expiration = 3
  /\ timer.attempt = 3

(***************************************************************************)
(* versioned_diffed_update_item                                            *)
(***************************************************************************)
Updating(u) == vu[u].pc # "idle"

LostRace == "ConditionalCheckFailedException"

(* C31: versioned_diffed_update_item makes at most                         *)
(* max(1, max_attempts_before_failure) read-transform-write attempts; it   *)
(* retries only after a ConditionalCheckFailedException and reads the item *)
(* anew before each retry; after the last failed attempt it raises         *)
(* VersionedUpdateFailure with the key, the table name and the last update *)
(* arguments; any other client error is raised at once, without a retry.   *)
C31_UpdateAttemptsAreBounded ==
  \A u \in Updaters : Updating(u) =>
    LET v == vu[u]
        failures == Len(v.errors)
    IN  /\ v.max_attempts_before_failure = max(1, v.asked)
        /\ v.gets <= v.max_attempts_before_failure
        /\ v.gets = v.attempt
        /\ v.updates <= v.gets /\ v.gets <= v.updates + 1
        /\ v.pc = "update" => v.gets = v.updates + 1
        /\ \A i \in 1..(failures - 1) : v.errors[i] = LostRace
        /\ v.pc # "done" => /\ failures = v.updates
                            /\ \A i \in 1..failures : v.errors[i] = LostRace
        /\ (failures > 0 /\ v.errors[failures] # LostRace)
             => /\ v.pc = "done"
                /\ v.updates = failures
                /\ v.outcome = RaisedClientError(ClientError(v.errors[failures], {}))
        /\ (v.pc = "done" /\ v.outcome.kind = "raise"
            /\ v.outcome.exc = "VersionedUpdateFailure")
             <=> (v.pc = "done" /\ failures = v.max_attempts_before_failure
                  /\ v.errors[failures] = LostRace)
        /\ (v.pc = "done" /\ failures = v.max_attempts_before_failure
            /\ v.errors[failures] = LostRace)
             => v.outcome = VersionedUpdateFailure(v.item_key, v.table, v.update_arguments)

C31_Witness ==
  /\ vu["u1"].pc = "done"
  /\ vu["u1"].asked = 2
  /\ vu["u1"].gets = 2
  /\ vu["u1"].updates = 2
  /\ vu["u1"].outcome.kind = "raise"
  /\ vu["u1"].outcome.exc = "VersionedUpdateFailure"
  /\ vu["u1"].outcome.update_arguments.set_attrs[item_version_attribute] = 3

StoredA == StoredItem(store, "T", KeyA)

VersionOf(item) == ItemGet(item, item_version_attribute, 0)

(* the updater u has just called update_item, and the item was written *)
Wrote(u) == vu[u].pc = "update" /\ vu'[u].pc # "update" /\ store' # store

(* the updater u has just read the item and returned without a write *)
ReturnedUnwritten(u) ==
  /\ vu[u].pc = "get"
  /\ vu'[u].pc = "done"
  /\ vu'[u].outcome.kind = "return"

(* C32: versioned_diffed_update_item writes only when no other versioned   *)
(* write to the item happened between its read and its write: the write is *)
(* conditioned on the version read and sets item_version to that version   *)
(* plus 1, so that no update of a concurrent caller is lost; when the      *)
(* transformer returns nothing, or nothing that differs meaningfully, no   *)
(* update call is made and the item as read is returned.                   *)
C32_NoUpdateIsLost ==
  [][\A u \in Updaters :
       /\ Wrote(u) =>
            /\ StoredA = vu[u].item
            /\ vu[u].expr.curItemVersion = VersionOf(vu[u].item)
            /\ VersionOf(StoredItem(store', "T", KeyA)) = VersionOf(vu[u].item) + 1
            /\ StoredItem(store', "T", KeyA)
                 = DictMerge(DictMerge(KeyA, item_transformer(vu[u].item_transformer, StoredA)),
                             [item_version |-> VersionOf(StoredA) + 1,
                              last_written_at |-> now])
            /\ vu'[u].outcome = ReturnedItem(vu[u].updated_item)
       /\ (vu[u].pc = "get" /\ vu'[u].pc # "get"
           /\ vu[u].item_transformer \in {"nothing", "unchanged", "blank"}
           /\ (StoredA # EmptyItem \/ vu[u].get_item = "strongly_consistent_get_item_if_exists"))
            => /\ ReturnedUnwritten(u)
               /\ vu'[u].outcome = ReturnedItem(StoredA)
               /\ vu'[u].updates = vu[u].updates
               /\ store' = store]_vars

C32_Witness ==
  /\ vu["u1"].pc = "done"
  /\ vu["u1"].item_transformer = "increment"
  /\ vu["u1"].errors = <<LostRace>>
  /\ vu["u1"].outcome = ReturnedItem(StoredA)
  /\ vu["u2"].pc = "done"
  /\ vu["u2"].outcome.kind = "return"
  /\ StoredA.val = vu["u2"].outcome.item.val + 1

Made == mc.pc = "made"

Subscribing(s) == Made /\ mc.sub[s].pc = "in"

(* the events of the log after its first n *)
EmittedAfter(n) == SubSeq(mc.log, n + 1, Len(mc.log))

(* the event the producer's callback is still to put on the queue q *)
Underway(q) ==
  IF \/ mc.recv.pc = "got" /\ \E i \in 1..Len(mc.queues) : mc.queues[i] = q
     \/ mc.recv.pc = "putting" /\ \E i \in 1..Len(mc.recv.pending) : mc.recv.pending[i] = q
  THEN <<mc.recv.event>>
  ELSE <<>>

(* what the subscriber s has received, has in its queue, or is being put *)
Due(s) == mc.sub[s].got \o mc.queue[QueueOf(s)] \o Underway(QueueOf(s))

(* C33: every subscriber of a producer key receives every event the        *)
(* producer emits after the subscription began, in the order of emission,  *)
(* whatever the interleaving of subscribers and producer: what it has      *)
(* received or is due is the log of events since it subscribed, preceded   *)
(* at most by the one event whose emission was under way at that moment.   *)
C33_SubscriberReceivesEveryEvent ==
  Made =>
    \A s \in Subscribers :
      Subscribing(s) =>
        \/ Due(s) = EmittedAfter(mc.sub[s].since)
        \/ /\ mc.sub[s].since > 0
           /\ Due(s) = EmittedAfter(mc.sub[s].since - 1)

C33_Witness ==
  /\ Subscribing("s1")
  /\ Subscribing("s2")
  /\ mc.sub["s1"].since = 0
  /\ mc.sub["s2"].since = 1
  /\ mc.sub["s1"].got = <<0, 1>>
  /\ mc.sub["s2"].got = <<1>>

(* the subscribers inside the with statement, or entering it *)
Inside == {s \in Subscribers : Made /\ mc.sub[s].pc \in {"starting", "in"}}

(* the subscriber s has entered the with statement in this step *)
Entered(s) == Made /\ mc.sub[s].pc \in {"out", "left", "raised"} /\ mc'.sub[s].pc \in {"starting", "in"}

(* C38: for a producer key at most one producer runs at a time; it is      *)
(* started when the first subscriber enters; once the last subscriber has  *)
(* left, normally or by an exception, cleanup has been called exactly once *)
(* for it and the key is removed, so that a later subscriber starts a      *)
(* fresh producer.                                                         *)
C38_OneProducerPerKeyCleanedUpOnce ==
  /\ [](Made =>
          /\ mc.started - mc.cleanups \in {0, 1}
          /\ mc.running <=> mc.started - mc.cleanups = 1
          /\ Inside # {} => mc.running
          /\ Inside = {} => mc.cleanups = mc.started /\ ~mc.present)
  /\ [][\A s \in Subscribers :
          Entered(s) /\ Inside = {} => mc'.started = mc.started + 1 /\ mc'.next = 0]_vars

(* the caller p has made a batch read and run its builder in this step *)
FetchedBy(p) == run[p].pc = "fetch" /\ run'[p].builds = run[p].builds + 1

(* C35: the transaction handed to the builder after a batch read has, for  *)
(* every requested key, a baseline entry that is the fetched item, or None *)
(* when the store has none, and no effects in any table; hence get of a    *)
(* requested key never signals not-yet-known, and the key a builder is     *)
(* fetched for next is never one that was requested already.               *)
C35_CleanTransactionHoldsEveryRequestedKey ==
  [][\A p \in Procs :
       FetchedBy(p) =>
         LET requested == parse_batch_get_request(run[p].item_keys_by_table_name)
             clean == run'[p].clean_transaction
             next_request == run'[p].item_keys_by_table_name
         IN  /\ \A t \in Range(requested.order) :
                  \A key \in requested.keys[t] :
                    /\ t \in DOMAIN clean.tables
                    /\ hashable_key(key) \in DOMAIN clean.tables[t].items
                    /\ clean.tables[t].items[hashable_key(key)] = store[t][hashable_key(key)]
                    /\ get(clean, t, key) = Value(store[t][hashable_key(key)])
             /\ \A t \in DOMAIN clean.tables : DOMAIN clean.tables[t].effects = {}
             /\ run'[p].last = "not_yet_fetched" =>
                  /\ \A t \in Range(requested.order) :
                       requested.keys[t] \subseteq next_request.keys[t]
                  /\ \E t \in DOMAIN next_request.keys :
                       \E key \in next_request.keys[t] :
                         /\ t \in DOMAIN requested.keys => key \notin requested.keys[t]
                         /\ IsRaised(get(clean, t, key), "ItemUndefinedException")]_vars

C35_Witness ==
  /\ run["p1"].builder = "read_all"
  /\ run["p1"].last = "not_yet_fetched"
  /\ run["p1"].reads = 3
  /\ run["p1"].clean_transaction.tables["T"].items[<<"a">>] = store["T"][<<"a">>]
  /\ store["T"][<<"a">>] # None
  /\ run["p1"].clean_transaction.tables["T"].items[<<"b">>] = None

(* the program is nothing but gets, and several of them *)
SeveralGets(program) ==
  /\ Len(program) >= 2
  /\ \A i \in 1..Len(program) : program[i].op = "get"

(* the batch reads of the caller p that asked for at least one key *)
NonEmptyBatchReads(p) ==
  IF run[p].first_clean = EmptyTransaction THEN run[p].reads - 1 ELSE run[p].reads

(* C34: when the builder performs several gets of keys not yet fetched,    *)
(* with no require in between, versioned_transact_write_items fetches all  *)
(* of them with a single non-empty batch read.                             *)
C34_GetsAreFetchedInOneBatchRead ==
  \A p \in Procs :
    (run[p].pc = "done" /\ SeveralGets(Programs[run[p].builder])) =>
      NonEmptyBatchReads(p) = 1

(* the builder of p1 run once on a transaction that holds the store's      *)
(* value of every key                                                      *)
BuiltOnceOnStoredValues ==
  transaction_builder(Programs[run["p1"].builder],
                      Tx(prepare_clean_transaction(AllKeys, _ddb_batch_get_item(store, AllKeys)),
                         TRUE),
                      None, TRUE)

LazyLoopEnded == run["p1"].pc = "done" /\ run["p1"].last \in {"built", "raised"}

(* C36: the None that the lazy loop presumes for a key not yet fetched     *)
(* never shows in its outcome: what lazy_batch_getting_transaction_builder *)
(* returns or raises is what the builder returns or raises when run once   *)
(* on a transaction that holds the store's real value of every key.        *)
C36_PresumedNoneNeverShows ==
  LazyLoopEnded =>
    LET once == BuiltOnceOnStoredValues
        r == run["p1"]
    IN  IF r.outcome.kind = "raise"
          THEN once.kind = "raise" /\ once.exc = r.outcome.exc
          ELSE /\ once.kind # "raise"
               /\ \A t \in TableNames :
                    /\ EffectsOf(r.built_transaction, t) = EffectsOf(once.tx, t)
                    /\ \A h \in DOMAIN ItemsOf(r.built_transaction, t) :
                         ItemsOf(r.built_transaction, t)[h] = store[t][h]

(* the items that other callers have committed a write to since the last   *)
(* batch read of the caller p                                              *)
ChangedSinceRead(p) == run[p].changed_once \cup run[p].changed_again

(* the commit attempt of p in this step is refused on a condition *)
Rejected(p) ==
  /\ Attempts(p)
  /\ run'[p].last # "committed"
  /\ run'[p].error \in {ClientError("ConditionalCheckFailedException", {}),
                       ClientError("TransactionCanceledException", {"ConditionalCheckFailed"})}

(* every item of the transaction p has built was batch-read in this attempt *)
AllFetched(p) == KeysIn(run[p].built_transaction) \subseteq KeysIn(run[p].clean_transaction)

====
